---- MODULE Spec2Model ----
(***************************************************************************)
(* Model of the distance engine and the network generation pipeline of     *)
(* BiG-SCAPE (src/bigscape.py): generate_dist_matrix / cluster_distance,   *)
(* generate_network and the analysis part of __main__.                     *)
(*                                                                         *)
(* Conventions                                                             *)
(*  - Python floats are modelled as exact rationals <<num, den>> in lowest *)
(*    terms with den > 0; rounding of IEEE doubles is not modelled.        *)
(*  - A record (BGC) id is a natural number; sorted() on ids is the        *)
(*    numeric order.                                                       *)
(*  - A domain type "PFxxxxf.v" is the number 10*f + v, so that            *)
(*    domain.split(".")[0] is d \div 10.                                     *)
(*  - A sequence tag is <<record, position in the record's domain list>>.  *)
(*  - A call that raises yields [ok |-> FALSE, val |-> <exception name>].  *)
(*  - The model starts after command-line parsing.                         *)
(***************************************************************************)
EXTENDS Integers, Sequences, FiniteSets, TLC

(***************************************************************************)
(* Bounds of the model                                                     *)
(***************************************************************************)
\* total number of domain occurrences over the two records of the
\* evaluator specification
MaxDomains == 5

(***************************************************************************)
(* Exact arithmetic standing for Python floats                             *)
(***************************************************************************)
Abs(x) == IF x < 0 THEN -x ELSE x

Max(x, y) == IF x > y THEN x ELSE y

Min(x, y) == IF x < y THEN x ELSE y

RECURSIVE GCD(_, _)
GCD(a, b) == IF b = 0 THEN a ELSE GCD(b, a % b)

Rat(n, d) ==
    LET g == GCD(Abs(n), Abs(d))
        s == IF d < 0 THEN -1 ELSE 1
    IN  <<(s * n) \div g, (s * d) \div g>>

RInt(n) == <<n, 1>>

RAdd(x, y) == Rat(x[1] * y[2] + y[1] * x[2], x[2] * y[2])

RSub(x, y) == Rat(x[1] * y[2] - y[1] * x[2], x[2] * y[2])

RMul(x, y) == Rat(x[1] * y[1], x[2] * y[2])

\* x / y for y # 0
RDiv(x, y) == Rat(x[1] * y[2], x[2] * y[1])

RLess(x, y) == x[1] * y[2] < y[1] * x[2]

RLeq(x, y) == x[1] * y[2] <= y[1] * x[2]

Zero == RInt(0)

One == RInt(1)

Range(s) == {s[i] : i \in 1..Len(s)}

Ok(v) == [ok |-> TRUE, val |-> v]

Raise(e) == [ok |-> FALSE, val |-> e]

RECURSIVE SumInt(_)
\* sum of the values of an integer-valued function
SumInt(f) ==
    IF DOMAIN f = {} THEN 0
    ELSE LET x == CHOOSE y \in DOMAIN f : TRUE
         IN  f[x] + SumInt([y \in DOMAIN f \ {x} |-> f[y]])

RECURSIVE SumRat(_)
\* sum of the values of a rational-valued function
SumRat(f) ==
    IF DOMAIN f = {} THEN Zero
    ELSE LET x == CHOOSE y \in DOMAIN f : TRUE
         IN  RAdd(f[x], SumRat([y \in DOMAIN f \ {x} |-> f[y]]))

(***************************************************************************)
(* The universe of the model                                               *)
(***************************************************************************)
\* domain types PF00001.1, PF00002.1, PF00003.1
Domains == {11, 21, 31}

\* characters of a domain sequence; "-" is the alignment gap
GapChar == "-"

\* the records of the evaluator specification
EvalClusters == {1, 2}

\* every ordered domain list of at most n domains
DomLists(n) == UNION {[1..k -> Domains] : k \in 0..n}

VARIABLES
    \* ---- process-wide lookup tables of bigscape.py
    DomainList,              \* record -> ordered list of domain types
    BGCs,                    \* record -> domain type -> list of sequence tags
    AlignedDomainSequences,  \* sequence tag -> aligned sequence
    domains_folder,          \* domain type -> (tag -> sequence): <domain>.fasta
    anchor_domains,          \* set of anchor families
    metagenomic,             \* options.metagenomic
    group_dct,               \* record -> <<product, description>>
    \* ---- evaluator specification
    rows                     \* parms -> result of generate_dist_matrix(parms)

\* a variant of bgc_class_weight whose weights for 'mix' sum to 11/10
bgc_class_weight_heavy ==
    [c \in {"PKSI", "PKSother", "NRPS", "RiPPs", "Saccharides", "Terpene",
            "PKS-NRP_Hybrids", "Others", "mix"} |->
        CASE c = "PKSI"            -> <<Rat(22, 100), Rat(76, 100), Rat(2, 100), RInt(1)>>
          [] c = "PKSother"        -> <<Rat(0, 100), Rat(32, 100), Rat(68, 100), RInt(4)>>
          [] c = "NRPS"            -> <<Rat(0, 100), Rat(100, 100), Rat(0, 100), RInt(4)>>
          [] c = "RiPPs"           -> <<Rat(28, 100), Rat(71, 100), Rat(1, 100), RInt(1)>>
          [] c = "Saccharides"     -> <<Rat(0, 100), Rat(0, 100), Rat(100, 100), RInt(1)>>
          [] c = "Terpene"         -> <<Rat(20, 100), Rat(75, 100), Rat(5, 100), RInt(2)>>
          [] c = "PKS-NRP_Hybrids" -> <<Rat(0, 100), Rat(78, 100), Rat(22, 100), RInt(1)>>
          [] c = "Others"          -> <<Rat(1, 100), Rat(97, 100), Rat(2, 100), RInt(4)>>
          [] c = "mix"             -> <<Rat(30, 100), Rat(75, 100), Rat(5, 100), RInt(2)>>]

\* Weights in the format J, DDS, AI, anchorboost
bgc_class_weight ==
    [c \in {"PKSI", "PKSother", "NRPS", "RiPPs", "Saccharides", "Terpene",
            "PKS-NRP_Hybrids", "Others", "mix"} |->
        CASE c = "PKSI"            -> <<Rat(22, 100), Rat(76, 100), Rat(2, 100), RInt(1)>>
          [] c = "PKSother"        -> <<Rat(0, 100), Rat(32, 100), Rat(68, 100), RInt(4)>>
          [] c = "NRPS"            -> <<Rat(0, 100), Rat(100, 100), Rat(0, 100), RInt(4)>>
          [] c = "RiPPs"           -> <<Rat(28, 100), Rat(71, 100), Rat(1, 100), RInt(1)>>
          [] c = "Saccharides"     -> <<Rat(0, 100), Rat(0, 100), Rat(100, 100), RInt(1)>>
          [] c = "Terpene"         -> <<Rat(20, 100), Rat(75, 100), Rat(5, 100), RInt(2)>>
          [] c = "PKS-NRP_Hybrids" -> <<Rat(0, 100), Rat(78, 100), Rat(22, 100), RInt(1)>>
          [] c = "Others"          -> <<Rat(1, 100), Rat(97, 100), Rat(2, 100), RInt(4)>>
          [] c = "mix"             -> <<Rat(20, 100), Rat(75, 100), Rat(5, 100), RInt(2)>>]

(***************************************************************************)
(* cluster_distance, piece by piece                                        *)
(***************************************************************************)
\* domain.split(".")[0]
split(domain) == domain \div 10

IsAnchor(domain) == split(domain) \in anchor_domains

\* BGCs[c][domain] does not raise KeyError
HasDomain(c, domain) == c \in DOMAIN BGCs /\ domain \in DOMAIN BGCs[c]

\* number of occurrences of domain in domlist[from..to] (1-based, inclusive)
CountIn(domlist, from, to, domain) ==
    Cardinality({i \in from..to : i \in 1..Len(domlist) /\ domlist[i] = domain})

\* a variant of DisjointTotals that counts domain types, not occurrences
DisjointTotals_types(A, B, setA, setB) ==
    <<Cardinality({x \in setA \cup setB : ~IsAnchor(x)}),
      Cardinality({x \in setA \cup setB : IsAnchor(x)})>>

\* totals of the disjoint case: <<S, S_anchor>>
DisjointTotals(A, B, setA, setB) ==
    <<SumInt([d \in {x \in setA : ~IsAnchor(x)} |-> Len(BGCs[A][d])])
        + SumInt([d \in {x \in setB : ~IsAnchor(x)} |-> Len(BGCs[B][d])]),
      SumInt([d \in {x \in setA : IsAnchor(x)} |-> Len(BGCs[A][d])])
        + SumInt([d \in {x \in setB : IsAnchor(x)} |-> Len(BGCs[B][d])])>>

RECURSIVE WindowScan(_, _, _, _, _, _)
\* the loop "for i in range(len(tmpB_domlist) - lengthA + 1)" from offset i on
\* (0-based), with the loop's current startB and intersect: <<startB, intersect>>
WindowScan(i, startB, intersect, setA, lengthA, tmpB_domlist) ==
    IF i > Len(tmpB_domlist) - lengthA THEN <<startB, intersect>>
    ELSE LET tmpBset == Range(SubSeq(tmpB_domlist, i + 1, i + lengthA))
         IN  IF Cardinality(setA \cap tmpBset) > Cardinality(intersect)
             THEN WindowScan(i + 1, i, setA \cap tmpBset, setA, lengthA, tmpB_domlist)
             ELSE WindowScan(i + 1, startB, intersect, setA, lengthA, tmpB_domlist)

\* B_domain_sequence_slice_bottom[domain] in metagenomic mode
FragmentSliceBottom(tmpB_domlist, startB, domain) ==
    CountIn(tmpB_domlist, 1, startB, domain)

\* B_domain_sequence_slice_top[domain] in metagenomic mode, for a domain of setB
FragmentSliceTop(tmpB_domlist, startB, lengthA, domain) ==
    FragmentSliceBottom(tmpB_domlist, startB, domain)
        + CountIn(tmpB_domlist, startB + 1, startB + lengthA, domain)

\* a variant of Jaccard that divides by the size of the smaller set
Jaccard_overlap(intersect, setA, setB) ==
    Rat(Cardinality(intersect), Min(Cardinality(setA), Cardinality(setB)))

\* JACCARD INDEX
Jaccard(intersect, setA, setB) ==
    Rat(Cardinality(intersect),
        Cardinality(setA) + Cardinality(setB) - Cardinality(intersect))

\* a variant of UnsharedOccurrences that counts the occurrences in A only
UnsharedOccurrences_onlyA(A, B, unshared_domain) ==
    IF HasDomain(A, unshared_domain) THEN Len(BGCs[A][unshared_domain]) ELSE 0

\* Case 1: len(unshared_occurrences) of one unshared domain
UnsharedOccurrences(A, B, unshared_domain) ==
    IF HasDomain(A, unshared_domain) THEN Len(BGCs[A][unshared_domain])
    ELSE Len(BGCs[B][unshared_domain])

\* pairwise2.align.globalds(seqA, seqB, pam250, -15, -6.67): with these gap
\* penalties two sequences of equal length are aligned without gaps; a shorter
\* one is padded at its end
globalds(unaligned_seqA, unaligned_seqB) ==
    LET n == Max(Len(unaligned_seqA), Len(unaligned_seqB))
        pad(s) == [p \in 1..n |-> IF p <= Len(s) THEN s[p] ELSE GapChar]
    IN  <<pad(unaligned_seqA), pad(unaligned_seqB)>>

\* the aligned sequences of two tags: from the multiple alignment, else from a
\* pairwise alignment of the sequences of <shared_domain>.fasta
AlignedPair(sequence_tag_a, sequence_tag_b, shared_domain) ==
    IF /\ sequence_tag_a \in DOMAIN AlignedDomainSequences
       /\ sequence_tag_b \in DOMAIN AlignedDomainSequences
    THEN Ok(<<AlignedDomainSequences[sequence_tag_a],
              AlignedDomainSequences[sequence_tag_b]>>)
    ELSE IF shared_domain \notin DOMAIN domains_folder THEN Raise("IOError")
    ELSE LET temp_domain_fastas == domains_folder[shared_domain]
         IN  IF \/ sequence_tag_a \notin DOMAIN temp_domain_fastas
                \/ sequence_tag_b \notin DOMAIN temp_domain_fastas
             THEN Raise("KeyError")
             ELSE Ok(globalds(temp_domain_fastas[sequence_tag_a],
                              temp_domain_fastas[sequence_tag_b]))

\* a variant of SequenceDistance that divides by the number of compared
\* positions
SequenceDistance_length(aligned_seqA, aligned_seqB) ==
    LET seq_length == Min(Len(aligned_seqA), Len(aligned_seqB))
        matches == Cardinality({p \in 1..seq_length :
                        aligned_seqA[p] = aligned_seqB[p] /\ aligned_seqA[p] # GapChar})
    IN  IF seq_length = 0 THEN Raise("ZeroDivisionError")
        ELSE Ok(RSub(One, Rat(matches, seq_length)))

\* one cell of DistanceMatrix from two aligned sequences
SequenceDistance(aligned_seqA, aligned_seqB) ==
    LET seq_length == IF Len(aligned_seqA) # Len(aligned_seqB)
                      THEN Min(Len(aligned_seqA), Len(aligned_seqB))
                      ELSE Len(aligned_seqA)
        matches == Cardinality({p \in 1..seq_length :
                        aligned_seqA[p] = aligned_seqB[p] /\ aligned_seqA[p] # GapChar})
        gaps == Cardinality({p \in 1..seq_length :
                        aligned_seqA[p] = aligned_seqB[p] /\ aligned_seqA[p] = GapChar})
    IN  IF seq_length - gaps = 0 THEN Raise("ZeroDivisionError")
        ELSE Ok(RSub(One, Rat(matches, seq_length - gaps)))

\* lines 454-472 for the aligned pair found, or the exception of the lookup
CellOf(pair) ==
    IF pair.ok THEN SequenceDistance(pair.val[1], pair.val[2]) ELSE pair

\* DistanceMatrix of one shared domain: cell [i, j] for the i-th compared copy
\* in A and the j-th in B (1-based), each from its slice bottom on
DistanceMatrix(specific_domain_list_A, specific_domain_list_B, bottom_a, bottom_b, num_copies_a, num_copies_b, shared_domain) ==
    [domsa \in 1..num_copies_a, domsb \in 1..num_copies_b |->
        IF \/ domsa + bottom_a > Len(specific_domain_list_A)
           \/ domsb + bottom_b > Len(specific_domain_list_B)
        THEN Raise("IndexError")
        ELSE CellOf(AlignedPair(specific_domain_list_A[domsa + bottom_a],
                                specific_domain_list_B[domsb + bottom_b],
                                shared_domain))] @@ <<>>

\* an assignment <<cost, index pairs>> extended by the index pair bi
ExtendAssignment(Matrix, bi, rest) ==
    <<RAdd(Matrix[bi].val, rest[1]), rest[2] \cup {bi}>>

\* a cheapest one of a set of assignments <<cost, index pairs>>
CheapestOf(candidates) ==
    CHOOSE best \in candidates : \A other \in candidates : RLeq(best[1], other[1])

RECURSIVE BestAssignment(_, _, _, _, _)
\* a cheapest way to give each of the lines i..k of the shorter side of the
\* matrix its own line among free of the longer side: <<cost, index pairs>>;
\* byRow: the shorter side is the rows
BestAssignment(Matrix, i, k, free, byRow) ==
    IF i > k THEN <<Zero, {}>>
    ELSE CheapestOf({ExtendAssignment(Matrix, IF byRow THEN <<i, j>> ELSE <<j, i>>,
                        BestAssignment(Matrix, i + 1, k, free \ {j}, byRow)) :
                     j \in free})

\* Munkres().compute(DistanceMatrix) for an n x m matrix: the index pairs of a
\* minimum-cost assignment of Min(n, m) pairs
Munkres_compute(Matrix, n, m) ==
    IF n <= m THEN BestAssignment(Matrix, 1, n, 1..m, TRUE)[2]
    ELSE BestAssignment(Matrix, 1, m, 1..n, FALSE)[2]

\* a variant of AssignmentCost that sums the main diagonal of the matrix
\* whatever the assignment is
AssignmentCost_diagonal(Matrix, indexes) ==
    SumRat([bi \in {x \in DOMAIN Matrix : x[1] = x[2]} |-> Matrix[bi].val])

\* sum([DistanceMatrix[bi[0]][bi[1]] for bi in BestIndexes])
AssignmentCost(Matrix, indexes) ==
    SumRat([bi \in indexes |-> Matrix[bi].val])

\* a variant of SharedDomainTerms normalized by the smaller number of copies
SharedDomainTerms_min(Matrix, num_copies_a, num_copies_b) ==
    <<RAdd(RInt(Abs(num_copies_a - num_copies_b)),
           AssignmentCost(Matrix, Munkres_compute(Matrix, num_copies_a, num_copies_b))),
      Min(num_copies_a, num_copies_b)>>

\* Cases 2 and 3 for one shared domain: <<sum_seq_dist, normalization_element>>
SharedDomainTerms(Matrix, num_copies_a, num_copies_b) ==
    <<RAdd(RInt(Abs(num_copies_a - num_copies_b)),
           AssignmentCost(Matrix, Munkres_compute(Matrix, num_copies_a, num_copies_b))),
      Max(num_copies_a, num_copies_b)>>

\* a variant of BlendDDS that weighs the anchor ratio by its share of the
\* normalization total alone, without the boost
BlendDDS_unboosted(domain_difference, S, domain_difference_anchor, S_anchor, anchorboost) ==
    IF S_anchor # 0 /\ S # 0
    THEN Ok(<<RSub(One, RDiv(RAdd(domain_difference, domain_difference_anchor),
                             RInt(S + S_anchor))),
              RDiv(domain_difference, RInt(S)),
              RDiv(domain_difference_anchor, RInt(S_anchor))>>)
    ELSE IF S_anchor = 0
    THEN IF S = 0 THEN Raise("ZeroDivisionError")
         ELSE Ok(<<RSub(One, RDiv(domain_difference, RInt(S))),
                   RDiv(domain_difference, RInt(S)), Zero>>)
    ELSE Ok(<<RSub(One, RDiv(domain_difference_anchor, RInt(S_anchor))),
              Zero, RDiv(domain_difference_anchor, RInt(S_anchor))>>)

\* the blend of the anchor and non-anchor ratios:
\* <<DDS (similarity), DDS_non_anchor, DDS_anchor>>
BlendDDS(domain_difference, S, domain_difference_anchor, S_anchor, anchorboost) ==
    IF S_anchor # 0 /\ S # 0
    THEN LET DDS_non_anchor == RDiv(domain_difference, RInt(S))
             DDS_anchor == RDiv(domain_difference_anchor, RInt(S_anchor))
             non_anchor_prct == Rat(S, S + S_anchor)
             anchor_prct == Rat(S_anchor, S + S_anchor)
             non_anchor_weight ==
                 RDiv(non_anchor_prct,
                      RAdd(RMul(anchor_prct, anchorboost), non_anchor_prct))
             anchor_weight ==
                 RDiv(RMul(anchor_prct, anchorboost),
                      RAdd(RMul(anchor_prct, anchorboost), non_anchor_prct))
             DDS == RAdd(RMul(non_anchor_weight, DDS_non_anchor),
                         RMul(anchor_weight, DDS_anchor))
         IN  Ok(<<RSub(One, DDS), DDS_non_anchor, DDS_anchor>>)
    ELSE IF S_anchor = 0
    THEN IF S = 0 THEN Raise("ZeroDivisionError")
         ELSE LET DDS_non_anchor == RDiv(domain_difference, RInt(S))
              IN  Ok(<<RSub(One, DDS_non_anchor), DDS_non_anchor, Zero>>)
    ELSE LET DDS_anchor == RDiv(domain_difference_anchor, RInt(S_anchor))
         IN  Ok(<<RSub(One, DDS_anchor), Zero, DDS_anchor>>)

\* set of sorted pairs of adjacent domains of a domain list
AdjacentPairs(domlist) ==
    {<<Min(domlist[l], domlist[l + 1]), Max(domlist[l], domlist[l + 1])>> :
        l \in 1..(Len(domlist) - 1)}

\* a variant of AdjacencyIndex without the comparison of the adjacent pairs
AdjacencyIndex_zero(A_domlist, B_domlist) == Zero

\* ADJACENCY INDEX
AdjacencyIndex(A_domlist, B_domlist) ==
    IF Len(A_domlist) < 2 \/ Len(B_domlist) < 2 THEN Zero
    ELSE Rat(Cardinality(AdjacentPairs(A_domlist) \cap AdjacentPairs(B_domlist)),
             Cardinality(AdjacentPairs(A_domlist) \cup AdjacentPairs(B_domlist)))

\* a variant of CompositeDistance with the Jaccard and the AI weights exchanged
CompositeDistance_swapped(Jaccardw, DDSw, AIw, Jac, DDS, AI) ==
    LET Distance == RSub(RSub(RSub(One, RMul(AIw, Jac)), RMul(DDSw, DDS)),
                         RMul(Jaccardw, AI))
    IN  IF RLess(Distance, Zero) THEN Zero ELSE Distance

\* Distance = 1 - Jaccardw*Jaccard - DDSw*DDS - AIw*AI, negative values set to 0
CompositeDistance(Jaccardw, DDSw, AIw, Jac, DDS, AI) ==
    LET Distance == RSub(RSub(RSub(One, RMul(Jaccardw, Jac)), RMul(DDSw, DDS)),
                         RMul(AIw, AI))
    IN  IF RLess(Distance, Zero) THEN Zero ELSE Distance

\* lines 333-334 with the result <<startB, intersect>> of the window loop
WindowFrame(A, B, A_domlist, tmpB_domlist, scan) ==
    [A |-> A, B |-> B, A_domlist |-> A_domlist,
     B_domlist |-> SubSeq(tmpB_domlist, scan[1] + 1, scan[1] + Len(A_domlist)),
     tmpB_domlist |-> tmpB_domlist, startB |-> scan[1],
     setA |-> Range(A_domlist),
     setB |-> Range(SubSeq(tmpB_domlist, scan[1] + 1, scan[1] + Len(A_domlist))),
     intersect |-> scan[2]]

\* a variant of FragmentFrame that takes the window at the start of the
\* larger BGC
FragmentFrame_first(A, B, A_domlist, tmpB_domlist) ==
    WindowFrame(A, B, A_domlist, tmpB_domlist,
                <<0, Range(A_domlist) \cap Range(SubSeq(tmpB_domlist, 1, Len(A_domlist)))>>)

\* lines 323-334: BGC A is the shortest; the slice of the larger BGC where the
\* shorter one fits the best
FragmentFrame(A, B, A_domlist, tmpB_domlist) ==
    WindowFrame(A, B, A_domlist, tmpB_domlist,
                WindowScan(0, 0, {}, Range(A_domlist), Len(A_domlist), tmpB_domlist))

\* lines 267-274 and 310-334: which record is A, which B, and the domain lists
\* and sets that are compared
CompareFrame(a, b, a_domlist, b_domlist) ==
    IF metagenomic
    THEN IF Len(a_domlist) < Len(b_domlist)
         THEN FragmentFrame(a, b, a_domlist, b_domlist)
         ELSE FragmentFrame(b, a, b_domlist, a_domlist)
    ELSE [A |-> a, B |-> b, A_domlist |-> a_domlist, B_domlist |-> b_domlist,
          tmpB_domlist |-> b_domlist, startB |-> 0,
          setA |-> Range(a_domlist), setB |-> Range(b_domlist),
          intersect |-> Range(a_domlist) \cap Range(b_domlist)]

\* B_domain_sequence_slice_bottom[domain] (lines 342-344, 360)
SliceBottomB(f, domain) ==
    IF metagenomic THEN FragmentSliceBottom(f.tmpB_domlist, f.startB, domain) ELSE 0

\* B_domain_sequence_slice_top[domain] (lines 347-351, 361)
SliceTopB(f, domain) ==
    IF metagenomic
    THEN FragmentSliceTop(f.tmpB_domlist, f.startB, Len(f.A_domlist), domain)
    ELSE Len(BGCs[f.B][domain])

\* a lookup BGCs[..][..] of the non-disjoint path raises KeyError
RelatedKeyError(f) ==
    \/ \E d \in f.setA : ~HasDomain(f.A, d)
    \/ ~metagenomic /\ \E d \in f.setB : ~HasDomain(f.B, d)
    \/ \E d \in (f.setA \cup f.setB) \ (f.setA \cap f.setB) :
            ~HasDomain(f.A, d) /\ ~HasDomain(f.B, d)
    \/ \E d \in f.intersect : ~HasDomain(f.A, d) \/ ~HasDomain(f.B, d)

\* DistanceMatrix of every shared domain
SharedMatrices(f) ==
    [d \in f.intersect |->
        DistanceMatrix(BGCs[f.A][d], BGCs[f.B][d], 0, SliceBottomB(f, d),
                       Len(BGCs[f.A][d]), SliceTopB(f, d) - SliceBottomB(f, d), d)]
    @@ <<>>

\* the exceptions raised while the matrices were filled
MatrixExceptions(f, matrices) ==
    UNION {{matrices[d][c].val : c \in {x \in DOMAIN matrices[d] : ~matrices[d][x].ok}} :
            d \in f.intersect}

\* number of occurrences, over the unshared domains of one kind, that Case 1 adds
UnsharedTotal(f, anchor) ==
    SumInt([d \in {x \in (f.setA \cup f.setB) \ (f.setA \cap f.setB) :
                        IsAnchor(x) = anchor} |->
                UnsharedOccurrences(f.A, f.B, d)])

\* a variant of Accumulate that routes the anchor domains into the non-anchor
\* accumulators and the other domains into the anchor accumulators
Accumulate_swapped(f, terms) ==
    <<RAdd(RInt(UnsharedTotal(f, TRUE)),
           SumRat([d \in {x \in f.intersect : IsAnchor(x)} |-> terms[d][1]])),
      UnsharedTotal(f, TRUE)
          + SumInt([d \in {x \in f.intersect : IsAnchor(x)} |-> terms[d][2]]),
      RAdd(RInt(UnsharedTotal(f, FALSE)),
           SumRat([d \in {x \in f.intersect : ~IsAnchor(x)} |-> terms[d][1]])),
      UnsharedTotal(f, FALSE)
          + SumInt([d \in {x \in f.intersect : ~IsAnchor(x)} |-> terms[d][2]])>>

\* lines 373-395 and 487-495: the four accumulators
\* <<domain_difference, S, domain_difference_anchor, S_anchor>>
\* from terms[d] = <<sum_seq_dist, normalization_element>> of each shared domain
Accumulate(f, terms) ==
    <<RAdd(RInt(UnsharedTotal(f, FALSE)),
           SumRat([d \in {x \in f.intersect : ~IsAnchor(x)} |-> terms[d][1]])),
      UnsharedTotal(f, FALSE)
          + SumInt([d \in {x \in f.intersect : ~IsAnchor(x)} |-> terms[d][2]]),
      RAdd(RInt(UnsharedTotal(f, TRUE)),
           SumRat([d \in {x \in f.intersect : IsAnchor(x)} |-> terms[d][1]])),
      UnsharedTotal(f, TRUE)
          + SumInt([d \in {x \in f.intersect : IsAnchor(x)} |-> terms[d][2]])>>

\* the accumulators after the loops over the unshared and the shared domains
DDSAccumulators(f, matrices) ==
    Accumulate(f, [d \in f.intersect |->
                    SharedDomainTerms(matrices[d], Len(BGCs[f.A][d]),
                                      SliceTopB(f, d) - SliceBottomB(f, d))] @@ <<>>)

\* line 564: the returned tuple
DistanceTuple(weights, acc, blend, Jac, AI) ==
    IF ~blend.ok THEN blend
    ELSE Ok(<<CompositeDistance(weights[1], weights[2], weights[3],
                                Jac, blend.val[1], AI),
              Jac, blend.val[1], AI, blend.val[2], blend.val[3], acc[2], acc[4]>>)

\* lines 498-564 from the accumulators
DistanceFromAccumulators(f, weights, acc) ==
    DistanceTuple(weights, acc,
                  BlendDDS(acc[1], acc[2], acc[3], acc[4], weights[4]),
                  Jaccard(f.intersect, f.setA, f.setB),
                  AdjacencyIndex(f.A_domlist, f.B_domlist))

\* lines 474-564 from the filled matrices
DistanceFromMatrices(f, weights, matrices) ==
    IF MatrixExceptions(f, matrices) # {}
    THEN Raise(CHOOSE e \in MatrixExceptions(f, matrices) : TRUE)
    ELSE DistanceFromAccumulators(f, weights, DDSAccumulators(f, matrices))

\* the non-disjoint path of cluster_distance (lines 300-564)
RelatedDistance(f, weights) ==
    IF RelatedKeyError(f) THEN Raise("KeyError")
    ELSE DistanceFromMatrices(f, weights, SharedMatrices(f))

\* the disjoint path of cluster_distance (lines 279-297)
DisjointDistance(A, B, setA, setB) ==
    IF \/ \E d \in setA : ~HasDomain(A, d)
       \/ \E d \in setB : ~HasDomain(B, d)
    THEN Raise("KeyError")
    ELSE Ok(<<One, Zero, Zero, Zero, One, One,
              DisjointTotals(A, B, setA, setB)[1], DisjointTotals(A, B, setA, setB)[2]>>)

\* Ok(<<Distance, Jaccard, DDS, AI, DDS_non_anchor, DDS_anchor, S, S_anchor>>)
cluster_distance(a, b, a_domlist, b_domlist, bgc_class) ==
    IF bgc_class \notin DOMAIN bgc_class_weight THEN Raise("KeyError")
    ELSE IF Range(a_domlist) \cap Range(b_domlist) = {}
    THEN DisjointDistance(a, b, Range(a_domlist), Range(b_domlist))
    ELSE RelatedDistance(CompareFrame(a, b, a_domlist, b_domlist),
                         bgc_class_weight[bgc_class])

\* the score field: float("inf") when dist == 0, else -1.0 * log(dist, 2)
LogScore(dist) ==
    IF dist = Zero THEN [f |-> "inf", x |-> dist] ELSE [f |-> "-log2", x |-> dist]

\* lines 238-257: the row made of the result r of cluster_distance
network_row(cluster1, cluster2, bgc_class, r) ==
    IF ~r.ok THEN r
    ELSE Ok(<<cluster1, cluster2, bgc_class,
              group_dct[cluster1][1], group_dct[cluster1][2],
              group_dct[cluster2][1], group_dct[cluster2][2],
              LogScore(r.val[1]), r.val[1],
              RMul(RSub(One, r.val[1]), RSub(One, r.val[1])),
              r.val[2], r.val[3], r.val[4], r.val[5], r.val[6], r.val[7], r.val[8]>>)

\* lines 222-235: the row of a pair with a record without domains
degenerate_row(cluster1, cluster2) ==
    Ok(<<cluster1, cluster2,
         group_dct[cluster1][1], group_dct[cluster1][2],
         group_dct[cluster2][1], group_dct[cluster2][2],
         Zero, One, Zero, Zero, Zero, Zero, One, One, 1, 1>>)

\* one row of the network, or the exception raised
generate_dist_matrix(parms) ==
    IF parms[1] \notin DOMAIN DomainList \/ parms[2] \notin DOMAIN DomainList
    THEN \* get_domain_list(<output_folder>/<cluster>.pfs): the pfs files are
         \* in <output_folder>/pfs
         Raise("IOError")
    ELSE IF Len(DomainList[parms[1]]) = 0 \/ Len(DomainList[parms[2]]) = 0
    THEN degenerate_row(parms[1], parms[2])
    ELSE network_row(parms[1], parms[2], parms[3],
                     cluster_distance(parms[1], parms[2], DomainList[parms[1]],
                                      DomainList[parms[2]], parms[3]))

\* the fields of a network row (lines 253-255), by position
RowDistance(row) == row[9]
RowJaccard(row) == row[11]
RowDDS(row) == row[12]
RowAI(row) == row[13]
RowS(row) == row[16]
RowSa(row) == row[17]

\* the fields after the ids, class and annotations: -log2score .. Sa
ScoreFields(row) == SubSeq(row, Len(row) - 9, Len(row))

(***************************************************************************)
(* Construction of the lookup tables                                       *)
(***************************************************************************)
\* BGC_dic_gen: domain type -> the tags of its occurrences, in genome order
BGC_dic_gen(c, domlist) ==
    [d \in Range(domlist) |->
        LET positions == SelectSeq([i \in 1..Len(domlist) |-> i],
                                   LAMBDA i : domlist[i] = d)
        IN  [k \in 1..Len(positions) |-> <<c, positions[k]>>]]

\* the sequence tags of a table of domain lists
Tags(lists) == {<<c, i>> : c \in DOMAIN lists, i \in 1..MaxDomains} \cap
               UNION {{<<c, i>> : i \in 1..Len(lists[c])} : c \in DOMAIN lists}

\* the domain sequence of a tag, as saved in <domain>.fasta
UnalignedSeq(tag) ==
    CASE (tag[1] + tag[2]) % 3 = 0 -> <<"A", "C">>
      [] (tag[1] + tag[2]) % 3 = 1 -> <<"C", "C">>
      [] OTHER                     -> <<"A", "A">>

\* the row of a tag in <domain>.algn: its sequence with one gap column
AlignedSeq(tag) ==
    LET u == UnalignedSeq(tag)
    IN  IF (tag[1] + tag[2]) % 2 = 0 THEN <<u[1], GapChar, u[2]>>
        ELSE <<u[1], u[2], GapChar>>

\* <domain>.fasta of every domain type that occurs
DomainFastas(lists) ==
    [d \in UNION {Range(lists[c]) : c \in DOMAIN lists} |->
        [t \in {x \in Tags(lists) : lists[x[1]][x[2]] = d} |-> UnalignedSeq(t)]]

\* the alignment data a run can find: <<AlignedDomainSequences, domains_folder>>
\*  - every domain type aligned
\*  - PF00001.algn missing, PF00001.fasta there (pairwise alignment)
\*  - PF00001.algn and PF00001.fasta missing
AlignmentScenarios(lists) ==
    LET all == Tags(lists)
        rest == {t \in all : lists[t[1]][t[2]] # 11}
        fastas == DomainFastas(lists)
    IN  { <<[t \in all |-> AlignedSeq(t)], fastas>>,
          <<[t \in rest |-> AlignedSeq(t)], fastas>>,
          <<[t \in rest |-> AlignedSeq(t)],
            [d \in DOMAIN fastas \ {11} |-> fastas[d]]>> }

(***************************************************************************)
(* generate_network and the tables of the main program                     *)
(***************************************************************************)
VARIABLES pc, err, options, clusters, sampleDict, samples_todo, sample,
          class_todo, cluster_pairs, network_matrix, network_matrix_mix,
          network_matrix_complete, network_matrix_sample, files

VARIABLES
    \* ---- start of the main program
    cutoffs,             \* options.cutoffs, split at the commas and parsed
    artifacts,           \* record -> the files the earlier steps left for it
    cutoff_list,         \* the list the networks are written for
    written,             \* the calls <<path, cutoff>> of write_network_matrix
    \* ---- one cell of a DistanceMatrix
    aligned_seqA, aligned_seqB, cell,
    \* ---- the pool of generate_network
    cores,               \* number of worker processes
    tasks,               \* the list of parms handed to pool.map
    pending,             \* indexes of the tasks no worker has taken yet
    running,             \* indexes of the tasks a worker is evaluating
    results,             \* index -> result of the finished call
    completion,          \* the indexes in the order the calls finished
    temp_domain_fastas   \* index -> the sequences the call loaded for itself

VARIABLES
    \* ---- runs on one output folder
    runs,                \* number of runs started on the output folder
    pfd_folder,          \* the records with a file <record>.pfd
    sequence_labels,     \* sequence tag -> its number of entries in <domain>.fasta
    algn_files,          \* domain -> the sequence tags in <domain>.algn
    BGCs_dict,           \* <<>> or <<the dictionary stored in BGCs.dict>>
    try_MA_resume,       \* no domtable was parsed in this run
    save_todo,           \* the records the loop of step 4 has not reached yet
    workers              \* per pool made in this run, its live worker processes

\* lines 196-201: the dictionary made of the rows that pool.map returned; an
\* exception of a worker is re-raised by pool.map (line 188), one of those raised
network_matrix_dict(network_matrix_rows) ==
    IF \E p \in DOMAIN network_matrix_rows : ~network_matrix_rows[p].ok
    THEN Raise({network_matrix_rows[p].val :
                    p \in {x \in DOMAIN network_matrix_rows : ~network_matrix_rows[x].ok}})
    ELSE Ok([key \in {SubSeq(network_matrix_rows[p].val, 1, 3) :
                            p \in DOMAIN network_matrix_rows} |->
                LET row == network_matrix_rows[
                               CHOOSE p \in DOMAIN network_matrix_rows :
                                   SubSeq(network_matrix_rows[p].val, 1, 3) = key].val
                IN  SubSeq(row, 4, Len(row))])

\* lines 181-201
generate_network(pairs) ==
    network_matrix_dict([p \in pairs |-> generate_dist_matrix(p)])

\* set(map(tuple, map(sorted, combinations(some_clusters, 2)))) tagged with a class
ClusterPairs(some_clusters, bgc_class) ==
    {<<q[1], q[2], bgc_class>> :
        q \in {x \in some_clusters \X some_clusters : x[1] < x[2]}}

\* str.lower of the class names
lower(name) ==
    CASE name = "PKSI" -> "pksi"
      [] name = "PKSother" -> "pksother"
      [] name = "NRPS" -> "nrps"
      [] name = "RiPPs" -> "ripps"
      [] name = "Saccharides" -> "saccharides"
      [] name = "Terpene" -> "terpene"
      [] name = "PKS-NRP_Hybrids" -> "pks-nrp_hybrids"
      [] name = "Others" -> "others"
      [] OTHER -> name

\* lines 1033-1038, with no class banned by the user
valid_classes == {lower(key) : key \in DOMAIN bgc_class_weight \ {"mix"}}

\* the products of the records of a run
Products == {"nrps", "t1pks-nrps", "transatpks-nrps"}

\* "t1pks" in product
HasT1pks(product) == product = "t1pks-nrps"

\* sort_bgc of functions.py: the class of a product
sort_bgc(product) ==
    CASE product = "nrps" -> "NRPS"
      [] product \in {"t1pks-nrps", "transatpks-nrps"} -> "PKS-NRP_Hybrids"
      [] OTHER -> "Others"

\* lines 1390-1403 and 1478-1491: the classes a record is appended to
ClassesOf(cluster) ==
    {c \in {sort_bgc(group_dct[cluster][1])} : c \in valid_classes}
    \cup (IF options.hybrids /\ sort_bgc(group_dct[cluster][1]) = "PKS-NRP_Hybrids"
          THEN {c \in {"NRPS"} : "nrps" \in valid_classes}
               \cup {c \in {"PKSI"} : HasT1pks(group_dct[cluster][1])
                                        /\ "pksi" \in valid_classes}
               \cup {c \in {"PKSother"} : ~HasT1pks(group_dct[cluster][1])
                                            /\ "pksother" \in valid_classes}
          ELSE {})

\* BGC_classes[bgc_class] after sorting the records of some_clusters
BGC_classes(some_clusters, bgc_class) ==
    {cluster \in some_clusters : bgc_class \in ClassesOf(cluster)}

\* the classes with len(BGC_classes[bgc_class]) > 1 (lines 1406, 1494)
ClassesToAnalyze(some_clusters) ==
    {c \in UNION {ClassesOf(cluster) : cluster \in some_clusters} :
        Cardinality(BGC_classes(some_clusters, c)) > 1}

\* a variant of ReuseEntries that hands the whole table over
ReuseEntries_whole(table, keys) ==
    IF keys \subseteq DOMAIN table THEN Ok(table) ELSE Raise("KeyError")

\* lines 1455-1456 and 1506-1507: the entries of a table copied key by key;
\* a key that is not in the table raises KeyError
ReuseEntries(table, keys) ==
    IF keys \subseteq DOMAIN table THEN Ok([k \in keys |-> table[k]])
    ELSE Raise("KeyError")

\* dict.update, and the assignment of entries to keys of a dict
Update(table, entries) ==
    [k \in DOMAIN table \cup DOMAIN entries |->
        IF k \in DOMAIN entries THEN entries[k] ELSE table[k]]

\* write_network_matrix for every cutoff of a partition: the table handed over
WriteNetwork(path, matrix) == Update(files, [f \in {path} |-> matrix])

\* "for cutoff in cutoff_list: write_network_matrix(..., cutoff, path, ...)":
\* the calls made for one path
WriteCalls(path) == {<<path, cutoff>> : cutoff \in Range(cutoff_list)}

\* list.remove(c): the list without the first occurrence of c
remove(list, c) ==
    LET i == CHOOSE k \in 1..Len(list) :
                 list[k] = c /\ \A j \in 1..(k - 1) : list[j] # c
    IN  SubSeq(list, 1, i - 1) \o SubSeq(list, i + 1, Len(list))

RECURSIVE RemoveNonPositive(_, _)
\* lines 924-926: "for c in cutoff_list: if c <= 0.0: cutoff_list.remove(c)"
\* from the i-th element on (1-based); the loop steps to the next index of
\* the list as it is after the removal
RemoveNonPositive(list, i) ==
    IF i > Len(list) THEN list
    ELSE IF RLeq(list[i], Zero) THEN RemoveNonPositive(remove(list, list[i]), i + 1)
    ELSE RemoveNonPositive(list, i + 1)

\* a variant of AppendOne that appends nothing
AppendOne_never(list) == list

\* lines 927-929: "if 1.0 not in cutoff_list: cutoff_list.append(1.0)"
AppendOne(list) ==
    IF One \in Range(list) THEN list ELSE Append(list, One)

\* lines 923-929: cutoff_list made of the parsed values of options.cutoffs
CutoffListOf(parsed) == AppendOne(RemoveNonPositive(parsed, 1))

(***************************************************************************)
(* Evaluator specification: generate_dist_matrix and generate_network      *)
(* applied to two records                                                  *)
(***************************************************************************)
EvalGroups == [c \in EvalClusters |->
                IF c = 1 THEN <<"nrps", "BGC 1">> ELSE <<"t1pks", "BGC 2">>]

\* the classes the evaluator is run with: all three weights non-zero (mix),
\* no Jaccard weight and the largest anchor boost (PKSother), adjacency only
\* (Saccharides)
EvalClasses == {"mix", "PKSother", "Saccharides"}

EvalParms ==
    {<<p[1], p[2], c>> : p \in {<<1, 2>>, <<2, 1>>, <<1, 1>>}, c \in EvalClasses}

\* the pairs of EvalParms that a caller of generate_network submits
EvalBatch == {p \in EvalParms : p[1] < p[2]}

NoError == [at |-> "", exception |-> ""]

NoOptions == [all |-> FALSE, mix |-> FALSE, classify |-> FALSE,
              samples |-> FALSE, hybrids |-> FALSE]

\* no cell is being computed
NoCell ==
    /\ aligned_seqA = <<>>
    /\ aligned_seqB = <<>>
    /\ cell = <<>>

\* no pool is at work
NoPool ==
    /\ cores = 0
    /\ tasks = <<>>
    /\ pending = {}
    /\ running = {}
    /\ results = <<>>
    /\ completion = <<>>
    /\ temp_domain_fastas = <<>>

\* no output folder is followed over runs
NoRuns ==
    /\ runs = 0
    /\ pfd_folder = {}
    /\ sequence_labels = <<>>
    /\ algn_files = <<>>
    /\ BGCs_dict = <<>>
    /\ try_MA_resume = FALSE
    /\ save_todo = {}
    /\ workers = <<>>

\* the main program is not run
NoMain ==
    /\ cutoffs = <<>>
    /\ artifacts = <<>>
    /\ cutoff_list = <<>>
    /\ options = NoOptions
    /\ sampleDict = <<>>

\* nothing of the network stage has happened
NoNetworks ==
    /\ rows = <<>>
    /\ err = NoError
    /\ samples_todo = {}
    /\ sample = ""
    /\ class_todo = {}
    /\ cluster_pairs = {}
    /\ network_matrix = Ok(<<>>)
    /\ network_matrix_mix = <<>>
    /\ network_matrix_complete = <<>>
    /\ network_matrix_sample = <<>>
    /\ files = <<>>
    /\ written = {}

EvalInit ==
    /\ DomainList \in
          {[c \in EvalClusters |-> IF c = 1 THEN la ELSE lb] :
              la \in DomLists(MaxDomains \div 2), lb \in DomLists(MaxDomains)}
    /\ Len(DomainList[1]) <= Len(DomainList[2])
    /\ Len(DomainList[1]) + Len(DomainList[2]) <= MaxDomains
    /\ BGCs = [c \in EvalClusters |-> BGC_dic_gen(c, DomainList[c])]
    /\ \E sc \in AlignmentScenarios(DomainList) :
          /\ AlignedDomainSequences = sc[1]
          /\ domains_folder = sc[2]
    /\ anchor_domains \in {{}, {1}}
    /\ metagenomic \in BOOLEAN
    /\ group_dct = EvalGroups
    /\ pc = "evaluate"
    /\ clusters = EvalClusters
    /\ NoMain
    /\ NoNetworks
    /\ NoCell
    /\ NoPool
    /\ NoRuns

dataVars == <<DomainList, BGCs, AlignedDomainSequences, domains_folder,
              anchor_domains, metagenomic, group_dct, options, clusters, sampleDict>>

tableVars == <<network_matrix_mix, network_matrix_complete, network_matrix_sample,
               files, written>>

loopVars == <<samples_todo, sample, class_todo>>

cellVars == <<aligned_seqA, aligned_seqB, cell>>

poolVars == <<cores, tasks, pending, running, results, completion, temp_domain_fastas>>

runVars == <<runs, pfd_folder, sequence_labels, algn_files, BGCs_dict, try_MA_resume,
             save_todo, workers>>

\* what the network stage and the evaluator leave alone
frameVars == <<dataVars, cutoffs, artifacts, cutoff_list, cellVars, poolVars, runVars>>

vars == <<frameVars, tableVars, loopVars, pc, err, cluster_pairs, network_matrix, rows>>

\* every parameter triple is evaluated, and the canonical ones are submitted
\* to generate_network as one batch
Evaluate ==
    /\ pc = "evaluate"
    /\ rows' = [p \in EvalParms |-> generate_dist_matrix(p)]
    /\ cluster_pairs' = EvalBatch
    /\ network_matrix' = network_matrix_dict([p \in EvalBatch |-> rows'[p]])
    /\ pc' = "done"
    /\ UNCHANGED <<frameVars, tableVars, loopVars, err>>

EvalNext == Evaluate

EvalSpec == EvalInit /\ [][EvalNext]_vars

(***************************************************************************)
(* The main program: the list of cutoffs (lines 923-929), the verification *)
(* of the files of the records (lines 1101-1254) and the network stage     *)
(* (lines 1354-1516)                                                       *)
(*                                                                         *)
(* The lookup tables are those the run loads: parseHmmScan has removed the *)
(* records without domains from clusters and from sampleDict (lines        *)
(* 802-810), which can leave a sample without records.                     *)
(***************************************************************************)
PipeClusters == {1, 2, 3}

PipeLists == {<<11, 21>>, <<21, 31>>}

PipeGroups ==
    [c \in PipeClusters |->
        IF c = 3 THEN <<"transatpks-nrps", "BGC 3">> ELSE <<"t1pks-nrps", "BGC">>]

Samples == {"s1", "s2"}

\* the longest list of values of --cutoffs
MaxCutoffs == 3

\* the values given with --cutoffs: -1, 0, 0.5, 1 and 2
CutoffValues == {RInt(-1), Zero, Rat(1, 2), One, RInt(2)}

\* options.cutoffs.split(",") of a string of numbers, each parsed with float()
CutoffInputs == UNION {[1..k -> CutoffValues] : k \in 1..MaxCutoffs}

\* default="1" of --cutoffs
DefaultCutoffs == <<One>>

\* the files of a record that the steps before the network stage verify:
\* <record>.fasta, <record>.domtable, <record>.pfd and <record>.pfs
ArtifactOrder == <<"fasta", "domtable", "pfd", "pfs">>

ArtifactKinds == Range(ArtifactOrder)

AllArtifacts == [c \in PipeClusters |-> ArtifactKinds]

\* one file of one record is missing
OneArtifactMissing ==
    {[AllArtifacts EXCEPT ![c] = ArtifactKinds \ {kind}] :
        c \in PipeClusters, kind \in ArtifactKinds}

\* every combination of domain lists, alignment data, analysis options and
\* samples
AnyRun ==
    /\ DomainList \in [PipeClusters -> PipeLists]
    /\ \E sc \in AlignmentScenarios(DomainList) :
          /\ AlignedDomainSequences = sc[1]
          /\ domains_folder = sc[2]
    /\ options \in [all : BOOLEAN, mix : BOOLEAN, classify : BOOLEAN,
                    samples : BOOLEAN, hybrids : BOOLEAN]
    /\ sampleDict \in UNION {[S -> SUBSET PipeClusters] : S \in {{"s1"}, Samples}}
    /\ UNION {sampleDict[s] : s \in DOMAIN sampleDict} = PipeClusters

\* one set of records, every domain aligned, two samples, analysed all mixed
\* or in every way
PlainRun ==
    /\ DomainList = [c \in PipeClusters |-> IF c = 3 THEN <<21, 31>> ELSE <<11, 21>>]
    /\ AlignedDomainSequences = [t \in Tags(DomainList) |-> AlignedSeq(t)]
    /\ domains_folder = DomainFastas(DomainList)
    /\ options \in {[all |-> b, mix |-> TRUE, classify |-> b, samples |-> TRUE,
                      hybrids |-> b] : b \in BOOLEAN}
    /\ sampleDict = [s \in Samples |-> IF s = "s1" THEN {1, 2} ELSE {2, 3}]

Init ==
    /\ clusters = PipeClusters
    /\ \/ AnyRun /\ cutoffs = DefaultCutoffs /\ artifacts = AllArtifacts
       \/ PlainRun /\ cutoffs \in CutoffInputs /\ artifacts = AllArtifacts
       \/ PlainRun /\ cutoffs = DefaultCutoffs /\ artifacts \in OneArtifactMissing
    /\ BGCs = [c \in PipeClusters |-> BGC_dic_gen(c, DomainList[c])]
    /\ anchor_domains = {1}
    /\ metagenomic = FALSE
    /\ group_dct = PipeGroups
    /\ cutoff_list = <<>>
    /\ pc = "options"
    /\ NoNetworks
    /\ NoCell
    /\ NoPool
    /\ NoRuns

\* lines 923-929: the list of cutoffs
SetCutoffList ==
    /\ pc = "options"
    /\ cutoff_list' = CutoffListOf(cutoffs)
    /\ pc' = "verify"
    /\ UNCHANGED <<dataVars, cutoffs, artifacts, cellVars, poolVars, runVars, tableVars,
                   loopVars, err, cluster_pairs, network_matrix, rows>>

\* the kinds of file that some record lacks, in the order they are verified
MissingKinds ==
    SelectSeq(ArtifactOrder, LAMBDA kind : \E c \in clusters : kind \notin artifacts[c])

\* lines 1101-1103, 1155-1157, 1219-1221 and 1249-1254: the files of every
\* record are verified before they are read; sys.exit when one is missing
VerifyArtifacts ==
    /\ pc = "verify"
    /\ IF MissingKinds # <<>>
       THEN /\ pc' = "exited"
            /\ err' = [at |-> "verify", exception |-> <<"SystemExit", MissingKinds[1]>>]
       ELSE /\ pc' = "all_mix"
            /\ err' = err
    /\ UNCHANGED <<frameVars, tableVars, loopVars, cluster_pairs, network_matrix, rows>>

\* an uncaught exception ends the run; err keeps where it was raised
Crash(exception) ==
    /\ pc' = "crashed"
    /\ err' = [at |-> pc, exception |-> exception]
    /\ UNCHANGED <<tableVars, loopVars>>

\* lines 1371-1378 with the table that generate_network returned
AllMixDone(result) ==
    /\ network_matrix' = result
    /\ IF result.ok
       THEN /\ files' = WriteNetwork(<<"all", "mix">>, result.val)
            /\ written' = written \cup WriteCalls(<<"all", "mix">>)
            /\ network_matrix_mix' = IF options.samples THEN result.val ELSE <<>>
            /\ pc' = "all_classify"
            /\ class_todo' = IF options.classify THEN ClassesToAnalyze(clusters) ELSE {}
            /\ UNCHANGED <<err, network_matrix_complete, network_matrix_sample,
                           samples_todo, sample>>
       ELSE Crash(result.val)

\* lines 1356-1378: the analysis of all records, all classes mixed
AllMix ==
    /\ pc = "all_mix"
    /\ IF options.all /\ options.mix
       THEN /\ cluster_pairs' = ClusterPairs(clusters, "mix")
            /\ AllMixDone(generate_network(ClusterPairs(clusters, "mix")))
       ELSE /\ pc' = "all_classify"
            /\ class_todo' = IF options.all /\ options.classify
                             THEN ClassesToAnalyze(clusters) ELSE {}
            /\ UNCHANGED <<tableVars, samples_todo, sample, err, cluster_pairs,
                           network_matrix>>
    /\ UNCHANGED <<frameVars, rows>>

\* lines 1416-1423 with the table that generate_network returned
AllClassifyDone(bgc_class, result) ==
    /\ network_matrix' = result
    /\ IF result.ok
       THEN /\ files' = WriteNetwork(<<"all", bgc_class>>, result.val)
            /\ written' = written \cup WriteCalls(<<"all", bgc_class>>)
            /\ network_matrix_complete' =
                  IF options.samples THEN Update(network_matrix_complete, result.val)
                  ELSE network_matrix_complete
            /\ class_todo' = class_todo \ {bgc_class}
            /\ UNCHANGED <<pc, err, network_matrix_mix, network_matrix_sample,
                           samples_todo, sample>>
       ELSE Crash(result.val)

\* lines 1405-1423: one class of the analysis of all records
AllClassifyClass ==
    /\ pc = "all_classify"
    /\ \E bgc_class \in class_todo :
          /\ cluster_pairs' = ClusterPairs(BGC_classes(clusters, bgc_class), bgc_class)
          /\ AllClassifyDone(bgc_class,
                generate_network(ClusterPairs(BGC_classes(clusters, bgc_class), bgc_class)))
    /\ UNCHANGED <<frameVars, rows>>

\* lines 1426-1437: the loop over the samples starts
AllClassifyEnd ==
    /\ pc = "all_classify"
    /\ class_todo = {}
    /\ pc' = "samples"
    /\ samples_todo' =
          IF options.samples /\ ~(Cardinality(DOMAIN sampleDict) = 1 /\ options.all)
          THEN DOMAIN sampleDict ELSE {}
    /\ UNCHANGED <<frameVars, tableVars, sample, class_todo, err, cluster_pairs,
                   network_matrix, rows>>

\* lines 1437-1443: the next sample of sampleDict.iteritems()
SampleNext ==
    /\ pc = "samples"
    /\ \E s \in samples_todo :
          /\ samples_todo' = samples_todo \ {s}
          /\ sample' = s
          /\ pc' = IF Cardinality(sampleDict[s]) = 1 THEN "samples" ELSE "sample_mix"
    /\ UNCHANGED <<frameVars, tableVars, class_todo, err, cluster_pairs,
                   network_matrix, rows>>

\* the mix analysis of a sample ends: lines 1463-1466, then 1469-1491
SampleMixDone(table, mix_table) ==
    /\ network_matrix_sample' = table
    /\ network_matrix_mix' = mix_table
    /\ files' = WriteNetwork(<<sample, "mix">>, table)
    /\ written' = written \cup WriteCalls(<<sample, "mix">>)
    /\ pc' = "sample_classify"
    /\ class_todo' = IF options.classify THEN ClassesToAnalyze(sampleDict[sample])
                     ELSE {}
    /\ UNCHANGED <<err, network_matrix_complete, samples_todo, sample>>

\* lines 1453-1457 with the entries copied from network_matrix_mix
SampleMixReused(entries) ==
    IF entries.ok
    THEN SampleMixDone(Update(network_matrix_sample, entries.val), <<>>)
    ELSE Crash(entries.val)

\* lines 1459-1461 with the table that generate_network returned
SampleMixComputed(result) ==
    /\ network_matrix' = result
    /\ IF result.ok THEN SampleMixDone(result.val, network_matrix_mix)
       ELSE Crash(result.val)

\* lines 1445-1466: the analysis of one sample, all classes mixed
SampleMix ==
    /\ pc = "sample_mix"
    /\ IF ~options.mix
       THEN /\ pc' = "sample_classify"
            /\ class_todo' = IF options.classify
                             THEN ClassesToAnalyze(sampleDict[sample]) ELSE {}
            /\ UNCHANGED <<tableVars, samples_todo, sample, err, cluster_pairs,
                           network_matrix>>
       ELSE IF options.all /\ options.mix
       THEN /\ SampleMixReused(ReuseEntries(network_matrix_mix,
                                            ClusterPairs(sampleDict[sample], "mix")))
            /\ UNCHANGED <<cluster_pairs, network_matrix>>
       ELSE /\ cluster_pairs' = ClusterPairs(sampleDict[sample], "mix")
            /\ SampleMixComputed(generate_network(ClusterPairs(sampleDict[sample], "mix")))
    /\ UNCHANGED <<frameVars, rows>>

\* lines 1496 and 1513-1516 with the table of the class
SampleClassDone(bgc_class, table) ==
    /\ network_matrix_sample' = table
    /\ files' = WriteNetwork(<<sample, bgc_class>>, table)
    /\ written' = written \cup WriteCalls(<<sample, bgc_class>>)
    /\ class_todo' = class_todo \ {bgc_class}
    /\ UNCHANGED <<pc, err, network_matrix_mix, network_matrix_complete,
                   samples_todo, sample>>

\* lines 1504-1507 with the entries copied from network_matrix_complete
SampleClassReused(bgc_class, entries) ==
    IF entries.ok THEN SampleClassDone(bgc_class, entries.val)
    ELSE Crash(entries.val)

\* lines 1509-1511 with the table that generate_network returned
SampleClassComputed(bgc_class, result) ==
    /\ network_matrix' = result
    /\ IF result.ok THEN SampleClassDone(bgc_class, result.val)
       ELSE Crash(result.val)

\* lines 1493-1516: one class of the analysis of one sample
SampleClassifyClass ==
    /\ pc = "sample_classify"
    /\ \E bgc_class \in class_todo :
          IF options.all /\ options.classify
          THEN /\ SampleClassReused(bgc_class,
                     ReuseEntries(network_matrix_complete,
                         ClusterPairs(BGC_classes(sampleDict[sample], bgc_class),
                                      bgc_class)))
               /\ UNCHANGED <<cluster_pairs, network_matrix>>
          ELSE /\ cluster_pairs' =
                     ClusterPairs(BGC_classes(sampleDict[sample], bgc_class), bgc_class)
               /\ SampleClassComputed(bgc_class,
                     generate_network(
                         ClusterPairs(BGC_classes(sampleDict[sample], bgc_class),
                                      bgc_class)))
    /\ UNCHANGED <<frameVars, rows>>

\* the classes of the sample are done: on to the next sample
SampleClassifyEnd ==
    /\ pc = "sample_classify"
    /\ class_todo = {}
    /\ pc' = "samples"
    /\ UNCHANGED <<frameVars, tableVars, loopVars, err, cluster_pairs,
                   network_matrix, rows>>

\* lines 1519-1524: the run ends
Finish ==
    /\ pc = "samples"
    /\ samples_todo = {}
    /\ pc' = "done"
    /\ UNCHANGED <<frameVars, tableVars, loopVars, err, cluster_pairs,
                   network_matrix, rows>>

Next ==
    \/ SetCutoffList
    \/ VerifyArtifacts
    \/ AllMix
    \/ AllClassifyClass
    \/ AllClassifyEnd
    \/ SampleNext
    \/ SampleMix
    \/ SampleClassifyClass
    \/ SampleClassifyEnd
    \/ Finish

Spec == Init /\ [][Next]_vars

(***************************************************************************)
(* Cell specification: lines 454-472 applied to two aligned sequences      *)
(***************************************************************************)
\* the longest aligned sequence
MaxSeqLen == 3

\* two residues and the gap
Residues == {"A", "C", GapChar}

\* the aligned sequences of at most n positions
AlignedSeqs(n) == UNION {[1..k -> Residues] : k \in 0..n}

CellInit ==
    /\ aligned_seqA \in AlignedSeqs(MaxSeqLen)
    /\ aligned_seqB \in AlignedSeqs(MaxSeqLen)
    /\ cell = <<>>
    /\ pc = "cell"
    /\ DomainList = <<>>
    /\ BGCs = <<>>
    /\ AlignedDomainSequences = <<>>
    /\ domains_folder = <<>>
    /\ anchor_domains = {}
    /\ metagenomic = FALSE
    /\ group_dct = <<>>
    /\ clusters = {}
    /\ NoMain
    /\ NoNetworks
    /\ NoPool
    /\ NoRuns

\* lines 454-472: DistanceMatrix[domsa][domsb] of the two sequences, or the
\* exception raised
ComputeCell ==
    /\ pc = "cell"
    /\ cell' = SequenceDistance(aligned_seqA, aligned_seqB)
    /\ pc' = "done"
    /\ UNCHANGED <<dataVars, cutoffs, artifacts, cutoff_list, aligned_seqA,
                   aligned_seqB, poolVars, runVars, tableVars, loopVars, err,
                   cluster_pairs, network_matrix, rows>>

CellNext == ComputeCell

CellSpec == CellInit /\ [][CellNext]_vars

(***************************************************************************)
(* Pool specification: generate_network (lines 181-201) with the calls of  *)
(* generate_dist_matrix spread over the worker processes of the pool       *)
(***************************************************************************)
\* the largest number of worker processes (options.cores)
MaxCores == 2

\* the list handed to generate_network: the pairs of three records
PoolTasks == <<<<1, 2, "mix">>, <<1, 3, "mix">>, <<2, 3, "mix">>>>

\* the shared domains of a pair for which a call has to align some pair of
\* sequences itself: a sequence tag is not in AlignedDomainSequences
FallbackDomains(parms) ==
    {d \in Range(DomainList[parms[1]]) \cap Range(DomainList[parms[2]]) :
        \E tag \in Range(BGCs[parms[1]][d]) \cup Range(BGCs[parms[2]][d]) :
            tag \notin DOMAIN AlignedDomainSequences}

\* lines 435-444: what a call loads into its temp_domain_fastas, by domain
LoadedFastas(parms) ==
    [d \in FallbackDomains(parms) \cap DOMAIN domains_folder |-> domains_folder[d]]

\* a variant of SharedAfter in which the call keeps the sequences it loaded
\* in AlignedDomainSequences
SharedAfter_cached(parms) ==
    [DomainList |-> DomainList,
     BGCs |-> BGCs,
     AlignedDomainSequences |->
        Update(AlignedDomainSequences,
               [tag \in UNION {DOMAIN LoadedFastas(parms)[d] : d \in DOMAIN LoadedFastas(parms)} |->
                    UnalignedSeq(tag)]),
     anchor_domains |-> anchor_domains]

\* the shared tables after a call of generate_dist_matrix(parms): the call
\* reads them, works on copies of the domain lists (lines 269-270, 315-321)
\* and rebinds only its own temp_domain_fastas (lines 265, 406, 441)
SharedAfter(parms) ==
    [DomainList |-> DomainList,
     BGCs |-> BGCs,
     AlignedDomainSequences |-> AlignedDomainSequences,
     anchor_domains |-> anchor_domains]

\* a variant of MergeResults that takes the keys from the list of tasks and
\* the values from the results in the order the calls finished
MergeResults_arrival(task_list, result_of, finished) ==
    IF \E k \in DOMAIN result_of : ~result_of[k].ok
    THEN network_matrix_dict(result_of)
    ELSE Ok([key \in Range(task_list) |->
                LET k == CHOOSE x \in 1..Len(task_list) : task_list[x] = key
                    row == result_of[finished[k]].val
                IN  SubSeq(row, 4, Len(row))])

\* lines 188-201: pool.map gives the rows in the order of the tasks, whatever
\* the order the calls finished in, or re-raises an exception of a call; the
\* dictionary is made of the rows
MergeResults(task_list, result_of, finished) ==
    network_matrix_dict(result_of)

PoolInit ==
    /\ clusters = PipeClusters
    /\ DomainList \in [PipeClusters -> PipeLists]
    /\ BGCs = [c \in PipeClusters |-> BGC_dic_gen(c, DomainList[c])]
    /\ \E sc \in AlignmentScenarios(DomainList) :
          /\ AlignedDomainSequences = sc[1]
          /\ domains_folder = sc[2]
    /\ anchor_domains = {1}
    /\ metagenomic = FALSE
    /\ group_dct = PipeGroups
    /\ cores \in 1..MaxCores
    /\ tasks = <<>>
    /\ pending = {}
    /\ running = {}
    /\ results = <<>>
    /\ completion = <<>>
    /\ temp_domain_fastas = <<>>
    /\ pc = "generate_network"
    /\ NoMain
    /\ NoNetworks
    /\ NoCell
    /\ NoRuns

\* what the actions of the pool leave alone
poolFrame == <<domains_folder, metagenomic, group_dct, options, clusters, sampleDict,
               cutoffs, artifacts, cutoff_list, cellVars, tableVars, loopVars, err,
               rows, cores, runVars>>

sharedVars == <<DomainList, BGCs, AlignedDomainSequences, anchor_domains>>

\* lines 184-188: the pool is made and the tasks are handed to it
MakePool ==
    /\ pc = "generate_network"
    /\ tasks' = PoolTasks
    /\ cluster_pairs' = Range(PoolTasks)
    /\ pending' = 1..Len(PoolTasks)
    /\ pc' = "map"
    /\ UNCHANGED <<poolFrame, sharedVars, running, results, completion,
                   temp_domain_fastas, network_matrix>>

\* a free worker takes the next task of the queue
WorkerTake(i) ==
    /\ pc = "map"
    /\ i \in pending
    /\ \A j \in pending : i <= j
    /\ Cardinality(running) < cores
    /\ pending' = pending \ {i}
    /\ running' = running \cup {i}
    /\ UNCHANGED <<poolFrame, sharedVars, tasks, cluster_pairs, results, completion,
                   temp_domain_fastas, network_matrix, pc>>

\* the call generate_dist_matrix(tasks[i]) of a worker ends
WorkerReturn(i) ==
    /\ pc = "map"
    /\ i \in running
    /\ results' = Update(results, [k \in {i} |-> generate_dist_matrix(tasks[i])])
    /\ completion' = Append(completion, i)
    /\ running' = running \ {i}
    /\ temp_domain_fastas' = Update(temp_domain_fastas, [k \in {i} |-> LoadedFastas(tasks[i])])
    /\ DomainList' = SharedAfter(tasks[i]).DomainList
    /\ BGCs' = SharedAfter(tasks[i]).BGCs
    /\ AlignedDomainSequences' = SharedAfter(tasks[i]).AlignedDomainSequences
    /\ anchor_domains' = SharedAfter(tasks[i]).anchor_domains
    /\ UNCHANGED <<poolFrame, tasks, cluster_pairs, pending, network_matrix, pc>>

\* pool.map returns when every call has ended, or re-raises the exception of
\* a call; lines 196-201 make the dictionary
PoolReturn ==
    /\ pc = "map"
    /\ \/ pending = {} /\ running = {}
       \/ \E k \in DOMAIN results : ~results[k].ok
    /\ network_matrix' = MergeResults(tasks, results, completion)
    /\ pc' = "done"
    /\ UNCHANGED <<poolFrame, sharedVars, tasks, cluster_pairs, pending, running,
                   results, completion, temp_domain_fastas>>

PoolNext ==
    \/ MakePool
    \/ \E i \in 1..Len(PoolTasks) : WorkerTake(i)
    \/ \E i \in 1..Len(PoolTasks) : WorkerReturn(i)
    \/ PoolReturn

PoolSpec == PoolInit /\ [][PoolNext]_vars

(***************************************************************************)
(* Runs on one output folder: steps 3 and 4 of the main program (lines     *)
(* 1139-1267), the alignments (lines 1272-1350) and the calls of           *)
(* generate_network of the analysis of all records (lines 1356-1423), for  *)
(* records that all have domains                                           *)
(***************************************************************************)
MaxRuns == 3

\* the domain lists in the pfs files of the records
RunLists == [c \in PipeClusters |-> IF c = 3 THEN <<21, 31>> ELSE <<11, 21>>]

\* the options of a run: all records, mixed and by class, with any of
\* --hybrids, --skip_ma, --skip_hmmscan and --force_hmmscan
RunOptions ==
    [all : {TRUE}, mix : {TRUE}, classify : {TRUE}, samples : {FALSE}, hybrids : BOOLEAN,
     skip_ma : BOOLEAN, skip_hmmscan : BOOLEAN, force_hmmscan : BOOLEAN]

\* save_domain_seqs(filtered_matrix, fasta_dict, domains_folder, outputbase):
\* every domain sequence of the record is appended to the fasta file of its
\* domain
save_domain_seqs(labels, outputbase) ==
    [t \in DOMAIN labels |-> IF t[1] = outputbase THEN labels[t] + 1 ELSE labels[t]]

RunsInit ==
    /\ runs = 0
    /\ pfd_folder = {}
    /\ sequence_labels = [t \in Tags(RunLists) |-> 0]
    /\ domains_folder = <<>>
    /\ algn_files = <<>>
    /\ BGCs_dict = <<>>
    /\ try_MA_resume = FALSE
    /\ save_todo = {}
    /\ workers = <<>>
    /\ cores \in 1..MaxCores
    /\ clusters = {}
    /\ DomainList = <<>>
    /\ BGCs = <<>>
    /\ AlignedDomainSequences = <<>>
    /\ anchor_domains = {1}
    /\ metagenomic = FALSE
    /\ group_dct = PipeGroups
    /\ tasks = <<>>
    /\ pending = {}
    /\ running = {}
    /\ results = <<>>
    /\ completion = <<>>
    /\ temp_domain_fastas = <<>>
    /\ pc = "start"
    /\ NoMain
    /\ NoNetworks
    /\ NoCell

\* what the actions of a run leave alone
runFrame == <<anchor_domains, metagenomic, group_dct, sampleDict, cutoffs, artifacts,
              cutoff_list, cellVars, tableVars, samples_todo, sample, rows, cores,
              tasks, pending, running, results, completion, temp_domain_fastas>>

\* the files of the output folder
folderVars == <<pfd_folder, sequence_labels, domains_folder, algn_files, BGCs_dict>>

\* the tables, the loop state and the pools of the running program
processVars == <<DomainList, BGCs, AlignedDomainSequences, try_MA_resume, save_todo,
                 cluster_pairs, network_matrix, class_todo, workers>>

\* the program is started on the output folder with at least two input
\* records
StartRun ==
    /\ pc = "start"
    /\ runs < MaxRuns
    /\ runs' = runs + 1
    /\ clusters' \in {S \in SUBSET PipeClusters : Cardinality(S) >= 2}
    /\ options' \in RunOptions
    /\ err' = NoError
    /\ pc' = "parse"
    /\ UNCHANGED <<runFrame, folderVars, processVars>>

\* the process ends: its memory and its worker processes are gone, the files
\* of the output folder stay
RunExit(exception) ==
    /\ pc' = "start"
    /\ err' = [at |-> pc, exception |-> exception]
    /\ clusters' = {}
    /\ options' = NoOptions
    /\ DomainList' = <<>>
    /\ BGCs' = <<>>
    /\ AlignedDomainSequences' = <<>>
    /\ try_MA_resume' = FALSE
    /\ save_todo' = {}
    /\ cluster_pairs' = {}
    /\ network_matrix' = Ok(<<>>)
    /\ class_todo' = {}
    /\ workers' = <<>>
    /\ UNCHANGED <<runFrame, runs>>

\* lines 1159-1196: the domtable files without a pfd file are parsed; if
\* there was one, the domains folder is emptied
ParseDomtables ==
    /\ pc = "parse"
    /\ pfd_folder' = pfd_folder \cup clusters
    /\ try_MA_resume' =
          (clusters \ (IF options.force_hmmscan THEN {} ELSE pfd_folder) = {})
    /\ IF try_MA_resume'
       THEN UNCHANGED <<sequence_labels, domains_folder, algn_files>>
       ELSE /\ sequence_labels' = [t \in DOMAIN sequence_labels |-> 0]
            /\ domains_folder' = <<>>
            /\ algn_files' = <<>>
    /\ save_todo' = IF options.skip_ma THEN {} ELSE clusters
    /\ pc' = "save"
    /\ UNCHANGED <<runFrame, runs, clusters, options, err, BGCs_dict, DomainList, BGCs,
                   AlignedDomainSequences, cluster_pairs, network_matrix, class_todo,
                   workers>>

\* lines 1228-1247: one round of the loop over the records; the domains
\* folder holds <domain>.fasta with the sequences of its labels
SaveDomainSeqs(outputbase) ==
    /\ pc = "save"
    /\ outputbase \in save_todo
    /\ sequence_labels' = IF try_MA_resume THEN sequence_labels
                          ELSE save_domain_seqs(sequence_labels, outputbase)
    /\ domains_folder' =
          [d \in {RunLists[t[1]][t[2]] :
                    t \in {x \in DOMAIN sequence_labels' : sequence_labels'[x] > 0}} |->
              [t \in {x \in DOMAIN sequence_labels' :
                        sequence_labels'[x] > 0 /\ RunLists[x[1]][x[2]] = d} |->
                  UnalignedSeq(t)]]
    /\ BGCs' = Update(BGCs, [c \in {outputbase} |-> BGC_dic_gen(c, RunLists[c])])
    /\ save_todo' = save_todo \ {outputbase}
    /\ UNCHANGED <<runFrame, runs, clusters, options, err, pc, pfd_folder, algn_files,
                   BGCs_dict, DomainList, AlignedDomainSequences, try_MA_resume,
                   cluster_pairs, network_matrix, class_todo, workers>>

\* the run is stopped inside the loop of lines 1228-1247
Interrupt ==
    /\ pc = "save"
    /\ save_todo # {}
    /\ RunExit("KeyboardInterrupt")
    /\ UNCHANGED folderVars

\* lines 1249-1267: the domain lists are read from the pfs files and
\* BGCs.dict is written, or read with --skip_hmmscan or --skip_ma
LoadTables ==
    /\ pc = "save"
    /\ save_todo = {}
    /\ IF options.skip_hmmscan \/ options.skip_ma
       THEN IF BGCs_dict = <<>>
            THEN RunExit("IOError") /\ UNCHANGED folderVars
            ELSE /\ BGCs' = BGCs_dict[1]
                 /\ DomainList' = [c \in clusters |-> RunLists[c]]
                 /\ pc' = "align"
                 /\ UNCHANGED <<runFrame, runs, clusters, options, err, folderVars,
                                AlignedDomainSequences, try_MA_resume, save_todo,
                                cluster_pairs, network_matrix, class_todo, workers>>
       ELSE /\ BGCs_dict' = <<BGCs>>
            /\ DomainList' = [c \in clusters |-> RunLists[c]]
            /\ pc' = "align"
            /\ UNCHANGED <<runFrame, runs, clusters, options, err, pfd_folder,
                           sequence_labels, domains_folder, algn_files, BGCs,
                           AlignedDomainSequences, try_MA_resume, save_todo,
                           cluster_pairs, network_matrix, class_todo, workers>>

\* lines 1272-1350: without --skip_ma the domain fasta files with sequences
\* of several records are aligned, those with an alignment file left out when
\* no domtable was parsed; then the aligned sequences are loaded, and the
\* program exits if there is no alignment file
AlignDomains ==
    /\ pc = "align"
    /\ algn_files' =
          Update(algn_files,
                 [d \in {x \in DOMAIN domains_folder :
                            /\ ~options.skip_ma
                            /\ ~(try_MA_resume /\ x \in DOMAIN algn_files)
                            /\ Cardinality({t[1] : t \in DOMAIN domains_folder[x]}) # 1} |->
                    DOMAIN domains_folder[d]])
    /\ IF DOMAIN algn_files' = {}
       THEN /\ RunExit("SystemExit")
            /\ UNCHANGED <<pfd_folder, sequence_labels, domains_folder, BGCs_dict>>
       ELSE /\ AlignedDomainSequences' =
                  [t \in UNION {algn_files'[d] : d \in DOMAIN algn_files'} |-> AlignedSeq(t)]
            /\ class_todo' = {"mix"} \cup ClassesToAnalyze(clusters)
            /\ pc' = "network"
            /\ UNCHANGED <<runFrame, runs, clusters, options, err, pfd_folder,
                           sequence_labels, domains_folder, BGCs_dict, DomainList, BGCs,
                           try_MA_resume, save_todo, cluster_pairs, network_matrix,
                           workers>>

\* lines 1367-1369 and 1411-1413 with lines 184-188: generate_network is
\* called for the next batch of pairs and makes its pool
InvokeNetwork(bgc_class) ==
    /\ pc = "network"
    /\ bgc_class \in class_todo
    /\ "mix" \in class_todo => bgc_class = "mix"
    /\ cluster_pairs' =
          ClusterPairs(IF bgc_class = "mix" THEN clusters
                       ELSE BGC_classes(clusters, bgc_class), bgc_class)
    /\ workers' = Append(workers, cores)
    /\ class_todo' = class_todo \ {bgc_class}
    /\ pc' = "map"
    /\ UNCHANGED <<runFrame, runs, clusters, options, err, folderVars, DomainList, BGCs,
                   AlignedDomainSequences, try_MA_resume, save_todo, network_matrix>>

\* lines 188-201: an exception of a call ends the program; else
\* generate_network returns without pool.close() or pool.join(), and the pool
\* it made is ended by the interpreter or lives on
MapReturn ==
    /\ pc = "map"
    /\ IF ~generate_network(cluster_pairs).ok
       THEN RunExit(generate_network(cluster_pairs).val) /\ UNCHANGED folderVars
       ELSE /\ network_matrix' = generate_network(cluster_pairs)
            /\ \E collected \in BOOLEAN :
                   workers' = IF collected THEN [workers EXCEPT ![Len(workers)] = 0]
                              ELSE workers
            /\ pc' = "network"
            /\ UNCHANGED <<runFrame, runs, clusters, options, err, folderVars, DomainList,
                           BGCs, AlignedDomainSequences, try_MA_resume, save_todo,
                           cluster_pairs, class_todo>>

\* every batch is done: the program ends
EndRun ==
    /\ pc = "network"
    /\ class_todo = {}
    /\ RunExit("")
    /\ UNCHANGED folderVars

RunsNext ==
    \/ StartRun
    \/ ParseDomtables
    \/ \E outputbase \in PipeClusters : SaveDomainSeqs(outputbase)
    \/ Interrupt
    \/ LoadTables
    \/ AlignDomains
    \/ \E bgc_class \in DOMAIN bgc_class_weight : InvokeNetwork(bgc_class)
    \/ MapReturn
    \/ EndRun

RunsSpec == RunsInit /\ [][RunsNext]_vars

(***************************************************************************)
(* Properties of the evaluator (checked under EvalSpec)                    *)
(***************************************************************************)
Evaluated == rows # <<>>

\* number of occurrences in domlist of anchor (or of non-anchor) domain types
Occurrences(domlist, anchor) ==
    Cardinality({i \in 1..Len(domlist) : IsAnchor(domlist[i]) = anchor})

RStrictlyBetween(x, lo, hi) == RLess(lo, x) /\ RLess(x, hi)

\* C1: symmetry. For every class the evaluator gives (A,B) and (B,A) the same
\* score, distance, Jaccard, DDS similarity, AI, DDS sub-scores and
\* normalization totals, and fails for one order exactly when it fails for the
\* other; the degenerate case and the fragment mode included.
C1_Symmetry ==
    Evaluated =>
        \A c \in EvalClasses :
            /\ rows[<<1, 2, c>>].ok = rows[<<2, 1, c>>].ok
            /\ rows[<<1, 2, c>>].ok =>
                    ScoreFields(rows[<<1, 2, c>>].val) = ScoreFields(rows[<<2, 1, c>>].val)

\* a fragment-mode comparison of records of different length, sharing some
\* but not all domains, evaluated in both orders
C1_Witness ==
    /\ Evaluated
    /\ metagenomic
    /\ Len(DomainList[1]) >= 2
    /\ Len(DomainList[1]) < Len(DomainList[2])
    /\ rows[<<1, 2, "mix">>].ok /\ rows[<<2, 1, "mix">>].ok
    /\ RStrictlyBetween(RowDistance(rows[<<2, 1, "mix">>].val), Zero, One)
    /\ RowS(rows[<<2, 1, "mix">>].val) > 0
    /\ RowSa(rows[<<2, 1, "mix">>].val) > 0

\* C2: the raw distance of every row that the evaluator returns (regular,
\* disjoint or degenerate) lies in [0, 1].
C2_DistanceInUnitInterval ==
    Evaluated =>
        \A p \in EvalParms :
            rows[p].ok => /\ RLeq(Zero, RowDistance(rows[p].val))
                          /\ RLeq(RowDistance(rows[p].val), One)

\* a regular row with anchor and non-anchor domains, a shared domain with a
\* different number of copies in the two records and a distance inside (0, 1)
C2_Witness ==
    /\ Evaluated
    /\ ~metagenomic
    /\ \E d \in Range(DomainList[1]) \cap Range(DomainList[2]) :
            Len(BGCs[1][d]) # Len(BGCs[2][d])
    /\ rows[<<1, 2, "PKSother">>].ok
    /\ RowS(rows[<<1, 2, "PKSother">>].val) > 0
    /\ RowSa(rows[<<1, 2, "PKSother">>].val) > 0
    /\ RStrictlyBetween(RowDistance(rows[<<1, 2, "PKSother">>].val), Zero, One)

\* C6: the table that generate_network returns has exactly one entry for each
\* submitted pair, under the key (A, B, class), whichever path made the row.
C6_KeyedByPairAndClass ==
    (Evaluated /\ network_matrix.ok) => DOMAIN network_matrix.val = cluster_pairs

\* C7: when a record has no domains, generate_dist_matrix returns a row whose
\* raw distance field is 1.0 and whose Jaccard, DDS and AI fields are 0.
C7_DegenerateSentinel ==
    Evaluated =>
        \A p \in EvalParms :
            (Len(DomainList[p[1]]) = 0 \/ Len(DomainList[p[2]]) = 0) =>
                /\ rows[p].ok
                /\ RowDistance(rows[p].val) = One
                /\ RowJaccard(rows[p].val) = Zero
                /\ RowDDS(rows[p].val) = Zero
                /\ RowAI(rows[p].val) = Zero

C9_Disjoint ==
    Evaluated =>
        \A p \in EvalParms :
            (/\ Len(DomainList[p[1]]) > 0
             /\ Len(DomainList[p[2]]) > 0
             /\ Range(DomainList[p[1]]) \cap Range(DomainList[p[2]]) = {}) =>
                /\ rows[p].ok
                /\ RowDistance(rows[p].val) = One
                /\ RowJaccard(rows[p].val) = Zero
                /\ RowDDS(rows[p].val) = Zero
                /\ RowAI(rows[p].val) = Zero
                /\ RowS(rows[p].val) = Occurrences(DomainList[p[1]], FALSE)
                                        + Occurrences(DomainList[p[2]], FALSE)
                /\ RowSa(rows[p].val) = Occurrences(DomainList[p[1]], TRUE)
                                         + Occurrences(DomainList[p[2]], TRUE)

\* disjoint records with a repeated domain, anchor and non-anchor domains
C9_Witness ==
    /\ Evaluated
    /\ Len(DomainList[1]) > 0
    /\ Range(DomainList[1]) \cap Range(DomainList[2]) = {}
    /\ Cardinality(Range(DomainList[2])) < Len(DomainList[2])
    /\ rows[<<1, 2, "mix">>].ok
    /\ RowS(rows[<<1, 2, "mix">>].val) >= 2
    /\ RowSa(rows[<<1, 2, "mix">>].val) >= 2

\* C10: weighted sum. The distance of every pair that shares a domain is
\* max(0, 1 - (wJ*Jaccard + wD*DDS + wA*AI)) for the weights of the pair's class
\* and the component scores returned with it.
C10_WeightedSum ==
    Evaluated =>
        \A p \in EvalParms :
            (rows[p].ok
             /\ Range(DomainList[p[1]]) \cap Range(DomainList[p[2]]) # {}) =>
                RowDistance(rows[p].val) =
                    LET weighted ==
                            RAdd(RAdd(RMul(bgc_class_weight[p[3]][1], RowJaccard(rows[p].val)),
                                      RMul(bgc_class_weight[p[3]][2], RowDDS(rows[p].val))),
                                 RMul(bgc_class_weight[p[3]][3], RowAI(rows[p].val)))
                    IN  IF RLess(One, weighted) THEN Zero ELSE RSub(One, weighted)

\* a pair with all three component scores strictly inside (0, 1)
C10_Witness ==
    /\ Evaluated
    /\ rows[<<1, 2, "mix">>].ok
    /\ Range(DomainList[1]) \cap Range(DomainList[2]) # {}
    /\ RStrictlyBetween(RowJaccard(rows[<<1, 2, "mix">>].val), Zero, One)
    /\ RStrictlyBetween(RowDDS(rows[<<1, 2, "mix">>].val), Zero, One)
    /\ RStrictlyBetween(RowAI(rows[<<1, 2, "mix">>].val), Zero, One)
    /\ RStrictlyBetween(RowDistance(rows[<<1, 2, "mix">>].val), Zero, One)

(***************************************************************************)
(* Properties of the network stage (checked under Spec)                    *)
(***************************************************************************)
\* the value that generate_network stores for a row
TableValue(row) == SubSeq(row, 4, Len(row))

\* C3: failure isolation. When the evaluation of one submitted pair fails,
\* generate_network still returns a table, and the table holds the result of
\* every submitted pair whose evaluation succeeds.
C3_FailureIsolated ==
    \A p \in cluster_pairs :
        generate_dist_matrix(p).ok =>
            /\ network_matrix.ok
            /\ p \in DOMAIN network_matrix.val
            /\ network_matrix.val[p] = TableValue(generate_dist_matrix(p).val)

\* C4: reuse of the all-records mix table over the whole sample loop. In a run
\* that computed the all-records mix table, the copy from it succeeds for every
\* sample with at least two records, and the table written for such a sample
\* holds exactly the pairs of the sample, with the values of the all-records
\* table.
C4_MixReuseEverySample ==
    (options.all /\ options.mix /\ options.samples) =>
        /\ ~(pc = "crashed" /\ err.at = "sample_mix")
        /\ \A s \in DOMAIN sampleDict :
              (Cardinality(sampleDict[s]) >= 2 /\ <<s, "mix">> \in DOMAIN files) =>
                  /\ DOMAIN files[<<s, "mix">>] = ClusterPairs(sampleDict[s], "mix")
                  /\ \A k \in DOMAIN files[<<s, "mix">>] :
                        files[<<s, "mix">>][k] = files[<<"all", "mix">>][k]

\* C5: reuse correctness. In a run that analysed all records by class, the
\* table written for a class of a sample, copied from network_matrix_complete,
\* is the table that generate_network computes for the pairs of that class in
\* the sample, key for key and value for value, and no copy fails.
C5_ClassReuseEqualsDirect ==
    (options.all /\ options.classify /\ options.samples) =>
        /\ ~(pc = "crashed" /\ err.at = "sample_classify")
        /\ \A s \in DOMAIN sampleDict :
              \A c \in DOMAIN bgc_class_weight \ {"mix"} :
                  <<s, c>> \in DOMAIN files =>
                      /\ generate_network(
                            ClusterPairs(BGC_classes(sampleDict[s], c), c)).ok
                      /\ files[<<s, c>>] =
                            generate_network(
                                ClusterPairs(BGC_classes(sampleDict[s], c), c)).val

\* a sample whose NRPS records are a part of the NRPS records of the run got
\* its NRPS table from network_matrix_complete, which holds two classes
C5_Witness ==
    /\ options.all /\ options.classify /\ options.samples
    /\ pc = "sample_classify"
    /\ <<sample, "NRPS">> \in DOMAIN files
    /\ Cardinality(DOMAIN files[<<sample, "NRPS">>]) = 1
    /\ Cardinality(DOMAIN files[<<"all", "NRPS">>]) = 3
    /\ \E k \in DOMAIN network_matrix_complete : k[3] = "PKSI"
    /\ \E k \in DOMAIN files[<<sample, "NRPS">>] :
            RStrictlyBetween(files[<<sample, "NRPS">>][k][6], Zero, One)

(***************************************************************************)
(* Properties of the assignment of the copies of a shared domain           *)
(* (checked under EvalSpec)                                                *)
(***************************************************************************)
\* the one-to-one maps of S into T
InjectiveMaps(S, T) ==
    {f \in [S -> T] : \A x, y \in S : f[x] = f[y] => x = y}

\* every way to give each line of the shorter side of an n x m matrix its own
\* line of the longer side, as a set of index pairs <<row, column>>
AllAssignments(n, m) ==
    IF n <= m
    THEN {{<<i, f[i]>> : i \in 1..n} : f \in InjectiveMaps(1..n, 1..m)}
    ELSE {{<<f[j], j>> : j \in 1..m} : f \in InjectiveMaps(1..m, 1..n)}

\* the total cost of the cells of an assignment
TotalCost(Matrix, assignment) ==
    SumRat([bi \in assignment |-> Matrix[bi].val])

\* cost is the least total cost of an assignment of the n x m matrix
IsMinimumCost(Matrix, n, m, cost) ==
    /\ \E a \in AllAssignments(n, m) : TotalCost(Matrix, a) = cost
    /\ \A a \in AllAssignments(n, m) : RLeq(cost, TotalCost(Matrix, a))

\* the matrix [[1, 4], [3, 2]]
ExampleMatrix ==
    [bi \in (1..2) \X (1..2) |-> Ok(RInt(<<<<1, 4>>, <<3, 2>>>>[bi[1]][bi[2]]))]

\* the frame in which records 1 and 2 are compared
Frame12 == CompareFrame(1, 2, DomainList[1], DomainList[2])

\* records 1 and 2 share a domain and their comparison succeeded
Related12 ==
    /\ Evaluated
    /\ rows[<<1, 2, "mix">>].ok
    /\ Len(DomainList[1]) > 0
    /\ Len(DomainList[2]) > 0
    /\ Range(DomainList[1]) \cap Range(DomainList[2]) # {}

\* the accumulated distance that the solver's assignment gives the matrix
\* [[1, 4], [3, 2]]
ExampleCost == AssignmentCost(ExampleMatrix, Munkres_compute(ExampleMatrix, 2, 2))

\* the accumulated distance taken from the solver's assignment of an n x m
\* matrix is its least total cost
OptimalFor(Matrix, n, m) ==
    IsMinimumCost(Matrix, n, m, AssignmentCost(Matrix, Munkres_compute(Matrix, n, m)))

\* the same for the cost matrix of every shared domain of the frame f
OptimalAssignments(f, matrices) ==
    \A d \in f.intersect :
        OptimalFor(matrices[d], Len(BGCs[f.A][d]), SliceTopB(f, d) - SliceBottomB(f, d))

\* C13: assignment optimality. For the cost matrix of every shared domain, the
\* accumulated distance taken from the solver's assignment is the minimum
\* total cost over all one-to-one assignments of the copies of the shorter side
\* to copies of the other side, rectangular matrices included; for the matrix
\* [[1, 4], [3, 2]] it is 3.
C13_AssignmentOptimal ==
    /\ ExampleCost = RInt(3)
    /\ Related12 => OptimalAssignments(Frame12, SharedMatrices(Frame12))

\* a shared domain with two copies in one record and three in the other, whose
\* cheapest assignment costs less than the cells of the main diagonal
C13_Witness ==
    /\ Related12
    /\ \E d \in Frame12.intersect :
          /\ Len(BGCs[Frame12.A][d]) = 2
          /\ SliceTopB(Frame12, d) - SliceBottomB(Frame12, d) = 3
          /\ RLess(AssignmentCost(SharedMatrices(Frame12)[d],
                        Munkres_compute(SharedMatrices(Frame12)[d], 2, 3)),
                   TotalCost(SharedMatrices(Frame12)[d], {<<1, 1>>, <<2, 2>>}))

\* the lists of records 1 and 2 are [X, Y] and [Y, Z] for three domain types
ListsXY_YZ ==
    /\ Len(DomainList[1]) = 2
    /\ Len(DomainList[2]) = 2
    /\ DomainList[1][2] = DomainList[2][1]
    /\ Cardinality({DomainList[1][1], DomainList[1][2], DomainList[2][2]}) = 3

\* the domain types that the two compared lists of the frame f have in common
\* over the domain types of both
FrameJaccard(f) ==
    Rat(Cardinality(f.setA \cap f.setB), Cardinality(f.setA \cup f.setB))

\* C17: the Jaccard index of every result is the number of domain types that
\* the two compared domain lists have in common divided by the number of
\* domain types of both, whatever the number of occurrences; with the empty
\* anchor set, the lists [X, Y] and [Y, Z] get Jaccard 1/3, and the distance
\* formula with the weights (1, 0, 0) gives 2/3 for their scores.
C17_Jaccard ==
    Evaluated =>
        \A p \in EvalParms :
            (rows[p].ok /\ Len(DomainList[p[1]]) > 0 /\ Len(DomainList[p[2]]) > 0) =>
                /\ RowJaccard(rows[p].val) =
                      FrameJaccard(CompareFrame(p[1], p[2], DomainList[p[1]], DomainList[p[2]]))
                /\ (anchor_domains = {} /\ ListsXY_YZ /\ p[1] # p[2]) =>
                      /\ RowJaccard(rows[p].val) = Rat(1, 3)
                      /\ CompositeDistance(One, Zero, Zero, RowJaccard(rows[p].val),
                                           RowDDS(rows[p].val), RowAI(rows[p].val)) = Rat(2, 3)

\* the lists [X, Y] and [Y, Z] were compared with the empty anchor set
C17_Witness ==
    /\ Evaluated
    /\ anchor_domains = {}
    /\ ListsXY_YZ
    /\ rows[<<1, 2, "mix">>].ok
    /\ RowJaccard(rows[<<1, 2, "mix">>].val) = Rat(1, 3)

\* the raw anchor difference ratio and the anchor normalization total of a
\* row: the third field from the end and the last field
RowAnchorRatio(row) == row[Len(row) - 2]
RowAnchorTotal(row) == row[Len(row)]

\* the DDS similarity field of a row, counted from the end
RowDDSFromEnd(row) == row[Len(row) - 5]

\* C16: empty anchor set. With no anchor domain the anchor contribution of
\* every result is zero: the anchor normalization total is 0, the raw anchor
\* difference ratio is 0, and the DDS similarity is the same for classes with
\* different anchor-boost factors.
C16_EmptyAnchorSet ==
    (Evaluated /\ anchor_domains = {}) =>
        \A p \in EvalParms :
            rows[p].ok =>
                /\ RowAnchorTotal(rows[p].val) = 0
                /\ RowAnchorRatio(rows[p].val) = Zero
                /\ \A c \in EvalClasses :
                      rows[<<p[1], p[2], c>>].ok =>
                          RowDDSFromEnd(rows[<<p[1], p[2], c>>].val) = RowDDSFromEnd(rows[p].val)

(***************************************************************************)
(* Properties of one cell of a DistanceMatrix (checked under CellSpec)     *)
(***************************************************************************)
\* the positions at which both sequences have a character
ComparedPositions == 1..Min(Len(aligned_seqA), Len(aligned_seqB))

\* the compared positions where both sequences hold the same residue
MatchedPositions ==
    {p \in ComparedPositions :
        aligned_seqA[p] = aligned_seqB[p] /\ aligned_seqA[p] # GapChar}

\* the compared positions where both sequences hold a gap
CommonGaps ==
    {p \in ComparedPositions :
        aligned_seqA[p] = GapChar /\ aligned_seqB[p] = GapChar}

CellComputed == pc = "done" /\ cell # <<>>

\* C19 as stated: the cell is 1 - (number of positions where both sequences
\* hold the same non-gap character) / (number of compared positions).
C19_CellAsStated ==
    (CellComputed /\ cell.ok) =>
        cell.val = RSub(One, Rat(Cardinality(MatchedPositions),
                                 Cardinality(ComparedPositions)))

\* C19: the cell of two aligned sequences with a compared position that is
\* not a gap in both is 1 - (number of positions where both sequences hold the
\* same non-gap character) / (number of compared positions that are not a gap
\* in both sequences).
C19_Cell ==
    (CellComputed /\ ComparedPositions # CommonGaps) =>
        /\ cell.ok
        /\ cell.val = RSub(One, Rat(Cardinality(MatchedPositions),
                                    Cardinality(ComparedPositions \ CommonGaps)))

\* sequences with a match, a mismatch and a common gap were compared
C19_Witness ==
    /\ CellComputed
    /\ cell.ok
    /\ Cardinality(MatchedPositions) = 1
    /\ Cardinality(CommonGaps) = 1
    /\ Cardinality(ComparedPositions) = 3
    /\ cell.val = Rat(1, 2)

\* C20: the computation of a cell never fails. For every pair of aligned
\* sequences, of unequal length, agreeing only on gaps, or empty, the cell
\* gets a value in [0, 1].
C20_CellNeverFails ==
    CellComputed =>
        /\ cell.ok
        /\ RLeq(Zero, cell.val)
        /\ RLeq(cell.val, One)

(***************************************************************************)
(* Properties of the start of the main program (checked under Spec)        *)
(***************************************************************************)
\* the records with a missing file
Incomplete == {c \in DOMAIN artifacts : artifacts[c] # ArtifactKinds}

\* C14: fatal missing artifact. When the fasta, domtable, pfd or pfs file of a
\* record is missing, the run does not abort: it goes on without the record
\* and writes the networks of the remaining records.
C14_MissingArtifactExcluded ==
    Incomplete # {} =>
        /\ pc # "exited"
        /\ (pc = "done" /\ options.all /\ options.mix) =>
              /\ <<"all", "mix">> \in DOMAIN files
              /\ DOMAIN files[<<"all", "mix">>] = ClusterPairs(clusters \ Incomplete, "mix")

\* the list of cutoffs is made
CutoffsRead == pc \in {"verify", "all_mix", "all_classify", "samples", "sample_mix", "sample_classify", "done", "crashed"}

\* C15: cutoff 1.0 is always included. For every value of --cutoffs the list of
\* cutoffs holds 1.0, and every partition and class that a table was made for
\* has its network written with cutoff 1.0.
C15_CutoffOneIncluded ==
    CutoffsRead =>
        /\ One \in Range(cutoff_list)
        /\ \A path \in DOMAIN files : <<path, One>> \in written
        /\ (pc \in {"all_classify", "samples", "done"} /\ options.all /\ options.mix) =>
              <<<<"all", "mix">>, One>> \in written

\* a run given only cutoffs other than 1.0, a non-positive one among them,
\* wrote the networks of all records and of a sample
C15_Witness ==
    /\ One \notin Range(cutoffs)
    /\ \E i \in 1..Len(cutoffs) : RLeq(cutoffs[i], Zero)
    /\ <<<<"all", "mix">>, One>> \in written
    /\ \E s \in Samples : <<<<s, "mix">>, One>> \in written
    /\ \E call \in written : call[2] # One

\* C18: every cutoff handed to the network writer lies in (0, 1]. The list of
\* cutoffs holds no value that is 0 or less, also when several such values are
\* next to each other in --cutoffs, and no value above 1.
C18_CutoffsInRange ==
    /\ CutoffsRead =>
          \A i \in 1..Len(cutoff_list) :
              RLess(Zero, cutoff_list[i]) /\ RLeq(cutoff_list[i], One)
    /\ \A call \in written : RLess(Zero, call[2]) /\ RLeq(call[2], One)

(***************************************************************************)
(* Properties of the pool of generate_network (checked under PoolSpec)     *)
(***************************************************************************)
\* the pool.map of a list of tasks has returned or raised
PoolReturned == pc = "done" /\ tasks # <<>>

\* lines 192-194: the pairs evaluated one after another in one process
SerializedRows == [k \in 1..Len(tasks) |-> generate_dist_matrix(tasks[k])]

\* C11: order independence. In whatever order the workers take and finish the
\* calls, generate_network returns a table exactly when the evaluation of the
\* pairs one after another in one process gives one, and it is the same
\* table, key for key and value for value.
C11_OrderIndependent ==
    PoolReturned =>
        /\ network_matrix.ok = network_matrix_dict(SerializedRows).ok
        /\ network_matrix.ok =>
              /\ DOMAIN network_matrix.val = Range(tasks)
              /\ \A k \in 1..Len(tasks) :
                    network_matrix.val[tasks[k]] = TableValue(SerializedRows[k].val)

\* two workers finished the calls in another order than the tasks were handed
\* over, and the table holds different values for different pairs
C11_Witness ==
    /\ PoolReturned
    /\ cores = 2
    /\ network_matrix.ok
    /\ completion = <<2, 1, 3>>
    /\ network_matrix.val[tasks[1]] # network_matrix.val[tasks[2]]

\* C12: evaluating a pair leaves the shared structures unchanged. No step of
\* the pool, a call of generate_dist_matrix that ends included, changes
\* DomainList, BGCs, AlignedDomainSequences or anchor_domains.
C12_SharedUnchanged ==
    [][/\ DomainList' = DomainList
       /\ BGCs' = BGCs
       /\ AlignedDomainSequences' = AlignedDomainSequences
       /\ anchor_domains' = anchor_domains]_vars

\* a call that loaded the sequences of a domain for a pairwise alignment has
\* ended with a row, and AlignedDomainSequences holds none of these sequences
C12_Witness ==
    /\ pc = "map"
    /\ \E i \in DOMAIN results :
          /\ results[i].ok
          /\ DOMAIN temp_domain_fastas[i] # {}
          /\ \A d \in DOMAIN temp_domain_fastas[i] :
                \A tag \in DOMAIN temp_domain_fastas[i][d] :
                    tag \notin DOMAIN AlignedDomainSequences

(***************************************************************************)
(* Properties of the fragment mode and of the DDS index (checked under     *)
(* EvalSpec)                                                               *)
(***************************************************************************)
\* number of occurrences of a domain type in a domain list
CountOf(domlist, d) == Cardinality({i \in 1..Len(domlist) : domlist[i] = d})

\* the normalization total of one kind when every domain type of the two
\* compared lists counts with its occurrences in these lists: the larger of
\* the two counts
ComparedTotal(A_domlist, B_domlist, anchor) ==
    SumInt([d \in {x \in Range(A_domlist) \cup Range(B_domlist) : IsAnchor(x) = anchor} |->
                Max(CountOf(A_domlist, d), CountOf(B_domlist, d))])

\* C21: the fragment mode restricts the comparison to the chosen window. The
\* normalization totals S and S_anchor count, for every domain type, shared
\* or in one of the two compared sets only, the occurrences in the shorter
\* record and those inside the window of the longer record, and no other.
C21_WindowOnly ==
    (Related12 /\ metagenomic) =>
        /\ RowS(rows[<<1, 2, "mix">>].val) =
              ComparedTotal(Frame12.A_domlist, Frame12.B_domlist, FALSE)
        /\ RowSa(rows[<<1, 2, "mix">>].val) =
              ComparedTotal(Frame12.A_domlist, Frame12.B_domlist, TRUE)

\* the shorter and the longer domain list of a pair; of two lists of the same
\* length the second is the shorter one
ShortList(p) ==
    IF Len(DomainList[p[1]]) < Len(DomainList[p[2]])
    THEN DomainList[p[1]] ELSE DomainList[p[2]]

LongList(p) ==
    IF Len(DomainList[p[1]]) < Len(DomainList[p[2]])
    THEN DomainList[p[2]] ELSE DomainList[p[1]]

\* the part of the longer list at an offset, as long as the shorter list
WindowAt(p, offset) == SubSeq(LongList(p), offset + 1, offset + Len(ShortList(p)))

\* number of domain types of the shorter list found in the window at an offset
WindowScore(p, offset) == Cardinality(Range(ShortList(p)) \cap Range(WindowAt(p, offset)))

Offsets(p) == 0..(Len(LongList(p)) - Len(ShortList(p)))

\* the smallest offset with the largest score
BestOffset(p) ==
    CHOOSE o \in Offsets(p) :
        \A o2 \in Offsets(p) :
            /\ WindowScore(p, o2) <= WindowScore(p, o)
            /\ o2 < o => WindowScore(p, o2) < WindowScore(p, o)

\* the two records have domains, share a domain type, and the call succeeded
RelatedPair(p) ==
    /\ rows[p].ok
    /\ Range(DomainList[p[1]]) \cap Range(DomainList[p[2]]) # {}

\* the Jaccard index of the shorter list and the window at an offset
WindowJaccard(p, offset) ==
    Rat(WindowScore(p, offset),
        Cardinality(Range(ShortList(p)) \cup Range(WindowAt(p, offset))))

\* the frame f of the records of p has the window at the offset, and the
\* Jaccard index of their row, whatever the class, is the given one
WindowChosen(p, f, offset, Jac) ==
    \A c \in EvalClasses :
        RelatedPair(<<p[1], p[2], c>>) =>
            /\ f.startB = offset
            /\ f.A_domlist = ShortList(p)
            /\ f.B_domlist = WindowAt(p, offset)
            /\ RowJaccard(rows[<<p[1], p[2], c>>].val) = Jac

\* the window of the frame f of the records of p is the one at the offset
WindowChosenAt(p, f, offset) == WindowChosen(p, f, offset, WindowJaccard(p, offset))

\* C22: fragment window selection. In fragment mode the window of the longer
\* record is as long as the domain list of the shorter record and lies at the
\* smallest offset where the number of domain types of the shorter record in
\* the window is the largest; the Jaccard index of the row is the one of the
\* shorter record and this window.
C22_WindowSelection ==
    (Evaluated /\ metagenomic) =>
        \A p \in EvalParms :
            (p[3] = "mix" /\ Range(DomainList[p[1]]) \cap Range(DomainList[p[2]]) # {}) =>
                WindowChosenAt(p, CompareFrame(p[1], p[2], DomainList[p[1]], DomainList[p[2]]),
                               BestOffset(p))

\* the best window is not the first one, and a later window is as good
C22_Witness ==
    /\ Evaluated
    /\ metagenomic
    /\ RelatedPair(<<1, 2, "mix">>)
    /\ BestOffset(<<1, 2, "mix">>) > 0
    /\ \E o \in Offsets(<<1, 2, "mix">>) :
          /\ o > BestOffset(<<1, 2, "mix">>)
          /\ WindowScore(<<1, 2, "mix">>, o) = WindowScore(<<1, 2, "mix">>, BestOffset(<<1, 2, "mix">>))

(***************************************************************************)
(* The accumulators of the domain duplication score (checked under         *)
(* EvalSpec)                                                               *)
(***************************************************************************)
\* the least of a set of rationals
LeastOf(costs) == CHOOSE c \in costs : \A other \in costs : RLeq(c, other)

\* the least total cost over all one-to-one assignments of an n x m matrix
MinCost(Matrix, n, m) ==
    LeastOf({TotalCost(Matrix, a) : a \in AllAssignments(n, m)})

\* the domain types of one kind that both compared lists hold
SharedTypes(f, anchor) ==
    {d \in Range(f.A_domlist) \cap Range(f.B_domlist) : (split(d) \in anchor_domains) = anchor}

\* the domain types of one kind that only one of the compared lists holds
SingleTypes(f, anchor) ==
    {d \in (Range(f.A_domlist) \cup Range(f.B_domlist))
                \ (Range(f.A_domlist) \cap Range(f.B_domlist)) :
        (split(d) \in anchor_domains) = anchor}

\* the occurrences of a domain type in the record that holds it
RecordCount(f, d) ==
    IF d \in Range(DomainList[f.A]) THEN CountOf(DomainList[f.A], d)
    ELSE CountOf(DomainList[f.B], d)

\* what the domain types of one kind add to the difference accumulator, with
\* the cost matrices of the shared domain types
ExpectedDifferenceOf(f, matrices, anchor) ==
    RAdd(RInt(SumInt([d \in SingleTypes(f, anchor) |-> RecordCount(f, d)])),
         SumRat([d \in SharedTypes(f, anchor) |->
                    RAdd(MinCost(matrices[d], CountOf(f.A_domlist, d), CountOf(f.B_domlist, d)),
                         RInt(Abs(CountOf(f.A_domlist, d) - CountOf(f.B_domlist, d))))]))

\* what the domain types of one kind add to the normalization accumulator
ExpectedNormalization(f, anchor) ==
    SumInt([d \in SingleTypes(f, anchor) |-> RecordCount(f, d)])
    + SumInt([d \in SharedTypes(f, anchor) |->
                Max(CountOf(f.A_domlist, d), CountOf(f.B_domlist, d))])

\* the difference accumulators of a row: the raw ratio times the total
RowDifference(row) == RMul(row[14], RInt(row[16]))
RowDifferenceAnchor(row) == RMul(row[15], RInt(row[17]))

\* the accumulators behind the rows of the records a and b, whatever the
\* class, are the given ones
AccountedRows(a, b, difference, S, difference_anchor, S_anchor) ==
    \A c \in EvalClasses :
        RelatedPair(<<a, b, c>>) =>
            /\ RowS(rows[<<a, b, c>>].val) = S
            /\ RowSa(rows[<<a, b, c>>].val) = S_anchor
            /\ RowDifference(rows[<<a, b, c>>].val) = difference
            /\ RowDifferenceAnchor(rows[<<a, b, c>>].val) = difference_anchor

\* the accumulators behind the rows of a and b are those expected for their
\* frame f and its cost matrices
AccountedFrame(a, b, f, matrices) ==
    AccountedRows(a, b, ExpectedDifferenceOf(f, matrices, FALSE), ExpectedNormalization(f, FALSE),
                  ExpectedDifferenceOf(f, matrices, TRUE), ExpectedNormalization(f, TRUE))

\* the accumulators behind the rows of a and b are those expected for their
\* frame f
AccountedPair(a, b, f) == AccountedFrame(a, b, f, SharedMatrices(f))

\* C23: DDS accounting. A shared domain type with nA and nB compared
\* occurrences adds the minimum assignment cost plus |nA - nB| to the
\* difference accumulator and max(nA, nB) to the normalization accumulator,
\* those of the anchor domains when the type without its version suffix is in
\* the anchor set and the non-anchor ones otherwise; a domain type that only
\* one of the two compared lists holds adds its number of occurrences in its
\* record to both accumulators of its kind.
C23_DDSAccounting ==
    Evaluated =>
        \A p \in EvalParms :
            (p[3] = "mix" /\ Range(DomainList[p[1]]) \cap Range(DomainList[p[2]]) # {}) =>
                AccountedPair(p[1], p[2],
                              CompareFrame(p[1], p[2], DomainList[p[1]], DomainList[p[2]]))

\* an anchor type in one record only, and a shared non-anchor type with one
\* occurrence against two whose cheapest assignment has a positive cost
C23_Witness ==
    /\ Related12
    /\ ~metagenomic
    /\ SingleTypes(Frame12, TRUE) # {}
    /\ \E d \in SharedTypes(Frame12, FALSE) :
          /\ CountOf(Frame12.A_domlist, d) = 1
          /\ CountOf(Frame12.B_domlist, d) = 2
          /\ RLess(Zero, MinCost(SharedMatrices(Frame12)[d], 1, 2))
    /\ RowSa(rows[<<1, 2, "mix">>].val) > 0
    /\ RLess(Zero, RowDifference(rows[<<1, 2, "mix">>].val))

(***************************************************************************)
(* The blend of the anchor and the non-anchor difference (checked under    *)
(* EvalSpec)                                                               *)
(***************************************************************************)
\* wa = (Sa/(S+Sa)) boost / ((Sa/(S+Sa)) boost + S/(S+Sa))
BoostedAnchorWeight(S, Sa, boost) ==
    RDiv(RMul(Rat(Sa, S + Sa), boost),
         RAdd(RMul(Rat(Sa, S + Sa), boost), Rat(S, S + Sa)))

\* wna (diff/S) + wa (diffa/Sa) with wna = 1 - wa
WeightedBlend(diff, S, diffa, Sa, wa) ==
    RAdd(RMul(RSub(One, wa), RDiv(diff, RInt(S))), RMul(wa, RDiv(diffa, RInt(Sa))))

\* the blended difference of the three-case rule
PiecewiseBlend(diff, S, diffa, Sa, boost) ==
    IF S # 0 /\ Sa # 0
    THEN WeightedBlend(diff, S, diffa, Sa, BoostedAnchorWeight(S, Sa, boost))
    ELSE IF Sa = 0 THEN RDiv(diff, RInt(S))
    ELSE RDiv(diffa, RInt(Sa))

\* the DDS similarity of a row is one minus the blend of the accumulators
\* behind the row, and the two normalization totals are not both 0
BlendedRow(row, boost) ==
    /\ RowS(row) + RowSa(row) > 0
    /\ RowDDS(row) =
          RSub(One, PiecewiseBlend(RowDifference(row), RowS(row),
                                   RowDifferenceAnchor(row), RowSa(row), boost))

\* C24: DDS blending is the three-case rule. With both normalization totals
\* non-zero the blended difference is wna (diff/S) + wa (diffa/Sa), with
\* wa = (Sa/(S+Sa)) boost / ((Sa/(S+Sa)) boost + S/(S+Sa)) and wna = 1 - wa;
\* with Sa = 0 it is diff/S, with S = 0 it is diffa/Sa; for two records that
\* share a domain type S + Sa > 0, so that no case divides by zero; the DDS
\* similarity is 1 minus the blended difference.
C24_PiecewiseBlend ==
    Evaluated =>
        \A p \in EvalParms :
            RelatedPair(p) =>
                BlendedRow(rows[p].val, bgc_class_weight[p[3]][4])

\* both normalization totals are non-zero, the two ratios differ, and the
\* boost of the class is not 1
C24_Witness ==
    /\ Related12
    /\ \E c \in EvalClasses :
          /\ rows[<<1, 2, c>>].ok
          /\ bgc_class_weight[c][4] # One
          /\ RowS(rows[<<1, 2, c>>].val) > 0
          /\ RowSa(rows[<<1, 2, c>>].val) > 0
          /\ rows[<<1, 2, c>>].val[14] # rows[<<1, 2, c>>].val[15]
          /\ RStrictlyBetween(RowDDS(rows[<<1, 2, c>>].val), Zero, One)

(***************************************************************************)
(* The score field of a row (checked under EvalSpec)                       *)
(***************************************************************************)
\* the score field of a row of two records with domains
RowScore(row) == row[8]

\* -log2(x), as the score field holds it
MinusLog2(x) == [f |-> "-log2", x |-> x]

\* C25: the score field of every result row is -log2(similarity) with
\* similarity = 1 - raw distance: it is -log2(1) = 0 when the raw distance is
\* 0, and -log2(1 - distance) for every raw distance below 1.
C25_ScoreOfSimilarity ==
    Evaluated =>
        \A p \in EvalParms :
            (rows[p].ok /\ Len(rows[p].val) = 17 /\ RowDistance(rows[p].val) # One) =>
                RowScore(rows[p].val) = MinusLog2(RSub(One, RowDistance(rows[p].val)))

(***************************************************************************)
(* The weights and the sign of the distance (checked under EvalSpec)       *)
(***************************************************************************)
\* 1 - (wJ J + wD DDS + wA AI) for the fields of a row and the weights of a
\* class
WeightedDistance(row, weights) ==
    RSub(One, RAdd(RAdd(RMul(weights[1], RowJaccard(row)), RMul(weights[2], RowDDS(row))),
                   RMul(weights[3], RowAI(row))))

\* 1 - (wJ J + wD DDS + wA AI) for the fields of a row and the weights of its
\* class, before negative values are set to 0
PreClampDistance(row) == WeightedDistance(row, bgc_class_weight[row[3]])

\* the diagnostic of the evaluator is printed below this distance
DiagnosticLimit == Rat(0 - 1, 1000000)

\* the three similarity weights of every class sum to 1
WeightsSumToOne ==
    \A c \in DOMAIN bgc_class_weight :
        RAdd(RAdd(bgc_class_weight[c][1], bgc_class_weight[c][2]), bgc_class_weight[c][3]) = One

\* the distance of a row is the distance before clamping, which is not
\* negative
NeverClamped(row, preclamp) ==
    /\ ~RLess(preclamp, DiagnosticLimit)
    /\ ~RLess(preclamp, Zero)
    /\ RowDistance(row) = preclamp

\* C30: for every class of the weight table, 'mix' included, the three
\* similarity weights sum to exactly 1, and for every pair of records the
\* distance before clamping, 1 - (wJ J + wD DDS + wA AI), is not negative: it
\* is not below -1/1000000, where the diagnostic is printed, and the distance
\* of the row is this value unchanged.
C30_WeightsSumToOne ==
    /\ WeightsSumToOne
    /\ Evaluated =>
          \A p \in EvalParms :
              RelatedPair(p) => NeverClamped(rows[p].val, PreClampDistance(rows[p].val))

\* two records with the same adjacent pairs and different sequences: the
\* distance before clamping is exactly 0 for the class that weighs the
\* adjacency index alone, and above 0 for the class 'mix'
C30_Witness ==
    /\ Related12
    /\ rows[<<1, 2, "Saccharides">>].ok
    /\ RowAI(rows[<<1, 2, "Saccharides">>].val) = One
    /\ PreClampDistance(rows[<<1, 2, "Saccharides">>].val) = Zero
    /\ RLess(Zero, PreClampDistance(rows[<<1, 2, "mix">>].val))

(***************************************************************************)
(* Properties of the runs on one output folder (checked under RunsSpec)    *)
(***************************************************************************)
\* the records of the pairs handed to generate_network
ScheduledRecords == UNION {{p[1], p[2]} : p \in cluster_pairs}

\* C26: preconditions are settled before scheduling. When a batch of pairs is
\* handed to generate_network, every record of a scheduled pair is a key of
\* DomainList and a key of BGCs, also when --skip_hmmscan or --skip_ma make
\* BGCs come from the stored BGCs.dict.
C26_PreconditionsSettled ==
    pc = "map" =>
        /\ ScheduledRecords \subseteq DOMAIN DomainList
        /\ ScheduledRecords \subseteq DOMAIN BGCs

\* C27: the worker pool is bounded by the core count over the whole run. At
\* any moment of the sequence of calls of generate_network the live worker
\* processes are at most `cores`: the pool of one call is shut down before
\* the next call makes its own.
C27_WorkersBounded ==
    SumInt(workers) <= cores

\* the loop that fills the domains folder has ended in a run without --skip_ma
DomainsFolderFilled ==
    /\ pc = "save"
    /\ save_todo = {}
    /\ ~options.skip_ma

\* C28: resumable stages keep the domain sequence files consistent. Over any
\* sequence of runs on the same output folder (re-runs, runs with added
\* records, runs interrupted while the domains folder is filled), after the
\* stage that fills the domains folder the fasta files hold each domain
\* occurrence of every current record exactly once: no label twice, none
\* missing.
C28_DomainFilesConsistent ==
    DomainsFolderFilled =>
        \A t \in DOMAIN sequence_labels :
            t[1] \in clusters => sequence_labels[t] = 1

(***************************************************************************)
(* Properties of the samples with fewer than two records (checked under    *)
(* Spec)                                                                   *)
(***************************************************************************)
\* the analysis of a sample is under way
SampleAnalysed(s) ==
    /\ sample = s
    /\ pc \in {"sample_mix", "sample_classify"}

\* C29: no network is produced for a sample with fewer than two records. For
\* every sample with one record or, its records having been removed as
\* domain-less, with none, the analysis of the sample is not entered (no pair
\* is scheduled or copied and no table is cleared for it) and no network
\* file of the sample is written.
C29_SmallSampleSkipped ==
    \A s \in DOMAIN sampleDict :
        Cardinality(sampleDict[s]) < 2 =>
            /\ ~SampleAnalysed(s)
            /\ \A path \in DOMAIN files : path[1] # s

====
